---- MODULE Spec2Model ----
(***************************************************************************)
(* A model of the simba blockchain simulator (kaimast/simba).  The module  *)
(* holds one state machine per subsystem; each has its own specification,  *)
(* in which the variables of the other subsystems stay at their initial    *)
(* value:                                                                  *)
(*   SpecLedger    NakamotoNodeLedger driven as in ledger/nakamoto/tests   *)
(*   SpecCow       CowTree and FrozenCowTree of the cow-tree crate           *)
(*   SpecPbft      logic/pbft with its clients; SpecPbftFair adds fairness   *)
(*   SpecNk        logic/nakamoto: miners and nodes exchanging blocks        *)
(*   SpecGossip    logic/gossip: one block spreading over a connected graph  *)
(*   SpecSb        logic/snowball: the sampling loops of all nodes           *)
(*   SpecSbTimeout logic/snowball with a timeout of a number of blocks       *)
(*   SpecSim       simulation.rs: the threads that change Simulation.state   *)
(*   SpecRunUntil  simulation.rs: the Simulation used through run_until      *)
(*   SpecSimIncompatible  simulation.rs: build_scene panics in the worker   *)
(*   SpecNkBlocks  logic/nakamoto: the clients are at the mining node        *)
(*   SpecClient    clients.rs: one client and the ledger of its node         *)
(*   SpecScene     simulation.rs: build_scene and the links it builds        *)
(*   SpecSweep     runners.rs: the IntervalGenerator of a parameter sweep    *)
(*   SpecReplica   logic/pbft: one replica of four nodes and its peers       *)
(*   SpecGossipFaulty  logic/gossip with one node marked as faulty           *)
(*   SpecSimStop   simulation.rs: start, pause and stop by the user          *)
(*   SpecOuro      logic/nakamoto: the run loops under Ouroboros             *)
(*   SpecNkRequest logic/nakamoto: requests for items a node does not hold   *)
(*   SpecNkGhost   logic/nakamoto: two miners with GHOST, four blocks        *)
(*   SpecRun       runners.rs: ExperimentRunner::run and its threads         *)
(***************************************************************************)
EXTENDS Integers, Sequences, FiniteSets, TLC

VARIABLES
    all_blocks,     \* NakamotoGlobalLedger.all_blocks: block id -> NakamotoBlock
    ledger          \* one NakamotoNodeLedger

VARIABLES
    cow_tree,       \* the root of a CowTree, or None once freeze() consumed it
    cow_frozen,     \* the root of the FrozenCowTree, or None
    cow_clone,      \* the root of the CowTree made by deep_clone(), or None
    cow_log,        \* the insert calls made so far: <<tree, key, value>>
    cow_panicked    \* an operation of the tree panicked

VARIABLES
    pbft_nodes,     \* node index -> NodeState of PbftNodeLogic, with the node's clients
    pbft_net,       \* <<source, destination>> -> the messages in flight on the link
    pbft_clients,   \* client -> Client
    pbft_blocks,    \* ConventionalGlobalLedger.all_blocks: the blocks created, by id
    pbft_finalized, \* history: node index -> the blocks the node finalized, by slot
    pbft_panicked   \* a panic!/assert!/unwrap of the PBFT logic was hit

VARIABLES
    nk_blocks,      \* NakamotoGlobalLedger.all_blocks of the Nakamoto network
    nk_nodes,       \* node index -> NodeState of NakamotoNodeLogic
    nk_net,         \* <<source, destination>> -> the messages in flight on the link
    nk_calls,       \* history: the add_new_block calls of the last handler that ran
    nk_panicked     \* a panic!/expect/unwrap of the Nakamoto logic was hit

VARIABLES
    gs_peers,       \* node index -> the peers the node has a link to
    gs_nodes,       \* node index -> GossipNodeLogic with its request task
    gs_net,         \* <<source, destination>> -> the messages in flight on the link
    gs_seen_by      \* GossipBlock.seen_by of the block of node 0

VARIABLES
    sb_sample_size, \* SnowballGlobalLogic.sample_size, 0 before instantiate
    sb_query_threshold, \* SnowballGlobalLogic.query_threshold
    sb_nodes,       \* node index -> SnowballNodeLogic with the locals of its run loop
    sb_net,         \* <<source, destination>> -> the messages in flight on the link
    sb_permits,     \* the permits of accept_sem
    sb_timeout      \* the task of a TimeoutConfig::Blocks timeout

VARIABLES
    sim_state,      \* Simulation.state, shared by the three threads
    sim_user,       \* where the thread that owns the Simulation is
    sim_worker,     \* where SimulationInner::run is
    sim_handler,    \* whether Simulation::event_handler is still running
    sim_commands,   \* command_queue
    sim_events,     \* the events sent to event_handler and not yet received
    sim_timeout,    \* the task that SetTimeout spawns: its status and the time left
    sim_rate_limit, \* Simulation.rate_limit: {} is None, {r} is Some(r)
    sim_time,       \* the virtual time of asim's timer
    sim_next_op_id, \* Simulation.next_op_id
    sim_pending_operations, \* pending_operations: <<op_id, thread of the PendingOp>>
    sim_callers     \* the threads in issue_operation, each with its PendingOp

VARIABLES
    cl_ledger,      \* NakamotoNodeLedger of the node the client is attached to
    cl_blocks,      \* the blocks that reached that node, by id
    cl_client       \* Client

VARIABLES
    sc_config,      \* the protocol, the connectivity and the locations of the nodes
    sc_pc,          \* where build_scene is
    sc_idx1,        \* idx1 of the outer loop over the nodes
    sc_scene        \* the links built, known_links and conns_per_nodes

VARIABLES
    pr_state,       \* NodeState of one PBFT replica in a network of four nodes
    pr_received,    \* peer -> the number of messages of the peer the replica handled
    pr_last         \* history: the message handled last, the state before, the effects

VARIABLES
    sw_data_ranges, \* IntervalGenerator.data_ranges
    sw_pos,         \* IntervalGenerator.pos
    sw_steps,       \* history: the steps get_next returned
    sw_pc           \* whether the generator was made, is done, or panicked

VARIABLES
    ou_config,      \* num_mining_nodes, num_non_mining_nodes, max_block_size
    ou_generators,  \* node -> next_block_generator of the node's Ouroboros generator
    ou_slot,        \* the slot at which the run loops of the mining nodes are
    ou_ran,         \* the mining nodes whose loop made its pass of this slot
    ou_blocks,      \* history: <<slot, node>> for every block generated
    ou_pc           \* whether the logic was instantiated

VARIABLES
    rn_parallelism, \* ExperimentRunner.parallelism
    rn_generator,   \* the IntervalGenerator of run: data_ranges and pos
    rn_at_end,      \* the local at_end of run
    rn_tasks,       \* the local tasks of run: the threads spawned and not joined yet
    rn_executed,    \* history: step index -> the number of run_next threads that ran it
    rn_records,     \* the records written to the CSV file, as step indices
    rn_pc           \* where run is: new, spawning, joining, ok, err, panicked

varsLedger == <<all_blocks, ledger>>
varsRun == <<rn_parallelism, rn_generator, rn_at_end, rn_tasks, rn_executed, rn_records, rn_pc>>
varsOuro == <<ou_config, ou_generators, ou_slot, ou_ran, ou_blocks, ou_pc>>
varsSweep == <<sw_data_ranges, sw_pos, sw_steps, sw_pc>>
varsReplica == <<pr_state, pr_received, pr_last>>
varsScene == <<sc_config, sc_pc, sc_idx1, sc_scene>>
varsClient == <<cl_ledger, cl_blocks, cl_client>>
varsSim == <<sim_state, sim_user, sim_worker, sim_handler, sim_commands, sim_events,
             sim_timeout, sim_rate_limit, sim_time, sim_next_op_id,
             sim_pending_operations, sim_callers>>
varsSb == <<sb_sample_size, sb_query_threshold, sb_nodes, sb_net, sb_permits, sb_timeout>>
varsGossip == <<gs_peers, gs_nodes, gs_net, gs_seen_by>>
varsNk == <<nk_blocks, nk_nodes, nk_net, nk_calls, nk_panicked>>
varsPbft == <<pbft_nodes, pbft_net, pbft_clients, pbft_blocks, pbft_finalized, pbft_panicked>>
varsCow == <<cow_tree, cow_frozen, cow_clone, cow_log, cow_panicked>>

vars == <<varsLedger, varsCow, varsPbft, varsNk, varsGossip, varsSb, varsSim, varsClient, varsScene,
         varsSweep, varsReplica, varsOuro, varsRun>>

\* The variables each subsystem leaves alone
OtherThanLedger == <<varsCow, varsPbft, varsNk, varsGossip, varsSb, varsSim, varsClient, varsScene,
    varsSweep, varsReplica, varsOuro, varsRun>>
OtherThanCow == <<varsLedger, varsPbft, varsNk, varsGossip, varsSb, varsSim, varsClient, varsScene,
    varsSweep, varsReplica, varsOuro, varsRun>>
OtherThanPbft == <<varsLedger, varsCow, varsNk, varsGossip, varsSb, varsSim, varsClient, varsScene,
    varsSweep, varsReplica, varsOuro, varsRun>>
OtherThanGossip == <<varsLedger, varsCow, varsPbft, varsNk, varsSb, varsSim, varsClient, varsScene,
    varsSweep, varsReplica, varsOuro, varsRun>>
OtherThanSb == <<varsLedger, varsCow, varsPbft, varsNk, varsGossip, varsSim, varsClient, varsScene,
    varsSweep, varsReplica, varsOuro, varsRun>>
OtherThanSim == <<varsLedger, varsCow, varsPbft, varsNk, varsGossip, varsSb, varsClient, varsScene,
    varsSweep, varsReplica, varsOuro, varsRun>>
OtherThanNk == <<varsLedger, varsCow, varsPbft, varsGossip, varsSb, varsSim, varsClient, varsScene,
    varsSweep, varsReplica, varsOuro, varsRun>>
OtherThanClient == <<varsLedger, varsCow, varsPbft, varsNk, varsGossip, varsSb, varsSim, varsScene,
    varsSweep, varsReplica, varsOuro, varsRun>>
OtherThanScene == <<varsLedger, varsCow, varsPbft, varsNk, varsGossip, varsSb, varsSim, varsClient,
    varsSweep, varsReplica, varsOuro, varsRun>>
OtherThanSweep == <<varsLedger, varsCow, varsPbft, varsNk, varsGossip, varsSb, varsSim, varsClient,
    varsScene, varsReplica, varsOuro, varsRun>>
OtherThanReplica == <<varsLedger, varsCow, varsPbft, varsNk, varsGossip, varsSb, varsSim, varsClient,
    varsScene, varsSweep, varsOuro, varsRun>>
OtherThanOuro == <<varsLedger, varsCow, varsPbft, varsNk, varsGossip, varsSb, varsSim, varsClient,
    varsScene, varsSweep, varsReplica, varsRun>>
OtherThanRun == <<varsLedger, varsCow, varsPbft, varsNk, varsGossip, varsSb, varsSim, varsClient,
    varsScene, varsSweep, varsReplica, varsOuro>>

(***************************************************************************)
(* Bounds of the model.                                                    *)
(***************************************************************************)
MaxBlocks == 4          \* blocks created in one run of the ledger model
NumTxs == 2             \* transaction ids 1..NumTxs
MaxBlockSize == 1       \* max_block_size of the protocol configuration
CommitDelay == 1        \* commit_delay of the protocol configuration

TxIds == 1..NumTxs

(***************************************************************************)
(* logic/mod.rs                                                            *)
(***************************************************************************)
GENESIS_BLOCK == 0
GENESIS_HEIGHT == 0

\* Option::None for an optional block id (block ids are non-zero)
NoBlock == 0 - 1

\* HashMap helpers: a map is a function whose domain is the key set
MapInsert(m, k, v) == [x \in (DOMAIN m) \cup {k} |-> IF x = k THEN v ELSE m[x]]
MapRemove(m, k) == [x \in (DOMAIN m) \ {k} |-> m[x]]
EmptyMap == [x \in {} |-> 0]

\* Iteration order of a collection: one fixed enumeration of the set
RECURSIVE SetToSeq(_)
SetToSeq(S) ==
    IF S = {} THEN <<>>
    ELSE LET x == CHOOSE y \in S : \A z \in S : y <= z
         IN <<x>> \o SetToSeq(S \ {x})

(***************************************************************************)
(* ledger/nakamoto/block.rs: NakamotoBlock::new_with_id                    *)
(***************************************************************************)
NakamotoBlock_new(mined_by, parent, uncles, height, num_nodes, transactions) ==
    [ mined_by |-> mined_by, parent |-> parent, uncles |-> uncles,
      height |-> height, num_nodes |-> num_nodes,
      transactions |-> transactions, seen_by |-> 0,
      full_propagation |-> FALSE ]

\* NakamotoBlock::mark_as_seen on block id of registry B
mark_as_seen(B, id) ==
    [B EXCEPT ![id] = [@ EXCEPT !.seen_by = @ + 1,
                                !.full_propagation =
                                    IF B[id].seen_by + 1 = B[id].num_nodes
                                    THEN TRUE ELSE @]]

(***************************************************************************)
(* ledger/nakamoto/mod.rs: NakamotoNodeLedger                              *)
(***************************************************************************)
NakamotoNodeLedger_new ==
    [ blocks |-> {},
      forks |-> EmptyMap,
      longest_chain |-> <<GENESIS_BLOCK, 0>>,
      marked_as_uncle |-> {},
      applied_transactions |-> {},
      mempool |-> {},
      known_transactions |-> {},
      notified |-> <<>>,        \* calls of notify_transaction_commit_fn, in order
      panicked |-> FALSE ]      \* a panic!/unwrap/expect of the ledger was hit

\* NakamotoNodeLedger::add_transaction; the bool result is Ledger_add_transaction_is_new
Ledger_add_transaction_is_new(l, txn_id) == txn_id \notin l.known_transactions

Ledger_add_transaction(l, txn_id) ==
    IF txn_id \in l.known_transactions
    THEN l
    ELSE [l EXCEPT !.known_transactions = @ \cup {txn_id},
                   !.mempool = @ \cup {txn_id}]

\* pick_fork: the set the random choice is drawn from, with its length
PickForkAny(l) ==
    IF DOMAIN l.forks = {} THEN {<<GENESIS_BLOCK, 0>>}
    ELSE {<<id, l.forks[id]>> : id \in DOMAIN l.forks}

pick_fork(l) ==
    LET max_length ==
            IF DOMAIN l.forks = {} THEN 0
            ELSE CHOOSE h \in {l.forks[id] : id \in DOMAIN l.forks} :
                     \A id \in DOMAIN l.forks : l.forks[id] <= h
        longest_forks ==
            IF max_length = 0 THEN {GENESIS_BLOCK} \cup {id \in DOMAIN l.forks : l.forks[id] = 0}
            ELSE {id \in DOMAIN l.forks : l.forks[id] = max_length}
    IN {<<id, max_length>> : id \in longest_forks}

\* update_chain_head, lines 287-290: push the new fork's blocks above the old head's height
RECURSIVE WalkNewFork(_, _, _, _)
WalkNewFork(l, B, new_ancestor, old_height) ==
    IF B[new_ancestor].height > old_height
    THEN IF B[new_ancestor].parent \notin l.blocks
         THEN [chain |-> <<new_ancestor>>, ancestor |-> new_ancestor, panicked |-> TRUE]
         ELSE LET r == WalkNewFork(l, B, B[new_ancestor].parent, old_height)
              IN [r EXCEPT !.chain = <<new_ancestor>> \o @]
    ELSE [chain |-> <<>>, ancestor |-> new_ancestor, panicked |-> FALSE]

\* A faulty undo loop that leaves the transactions of the old fork applied
RECURSIVE UndoKeepingApplied(_, _, _, _, _)
UndoKeepingApplied(l, B, new_ancestor, old_ancestor, chain) ==
    IF new_ancestor = old_ancestor
    THEN [l |-> l, chain |-> chain]
    ELSE LET old == B[old_ancestor]
             undone == [l EXCEPT
                 !.mempool = @ \cup old.transactions,
                 !.marked_as_uncle = @ \ old.uncles,
                 !.panicked = @ \/ ~(old.uncles \subseteq l.marked_as_uncle)]
             chain2 == Append(chain, new_ancestor)
             next_id == B[new_ancestor].parent
         IN IF next_id = GENESIS_BLOCK
            THEN [l |-> undone, chain |-> chain2]
            ELSE IF next_id \notin l.blocks \/ old.parent \notin l.blocks
                 THEN [l |-> [undone EXCEPT !.panicked = TRUE], chain |-> chain2]
                 ELSE UndoKeepingApplied(undone, B, next_id, old.parent, chain2)

\* A faulty undo loop that leaves the uncles of the old fork marked
RECURSIVE UndoKeepingUncles(_, _, _, _, _)
UndoKeepingUncles(l, B, new_ancestor, old_ancestor, chain) ==
    IF new_ancestor = old_ancestor
    THEN [l |-> l, chain |-> chain]
    ELSE LET old == B[old_ancestor]
             undone == [l EXCEPT
                 !.mempool = @ \cup old.transactions,
                 !.applied_transactions = @ \ old.transactions,
                 !.panicked = @ \/ ~(old.uncles \subseteq l.marked_as_uncle)]
             chain2 == Append(chain, new_ancestor)
             next_id == B[new_ancestor].parent
         IN IF next_id = GENESIS_BLOCK
            THEN [l |-> undone, chain |-> chain2]
            ELSE IF next_id \notin l.blocks \/ old.parent \notin l.blocks
                 THEN [l |-> [undone EXCEPT !.panicked = TRUE], chain |-> chain2]
                 ELSE UndoKeepingUncles(undone, B, next_id, old.parent, chain2)

\* update_chain_head, lines 294-326: undo the old fork down to the common ancestor
RECURSIVE UndoOldFork(_, _, _, _, _)
UndoOldFork(l, B, new_ancestor, old_ancestor, chain) ==
    IF new_ancestor = old_ancestor
    THEN [l |-> l, chain |-> chain]
    ELSE LET old == B[old_ancestor]
             undone == [l EXCEPT
                 !.mempool = @ \cup old.transactions,
                 !.applied_transactions = @ \ old.transactions,
                 !.marked_as_uncle = @ \ old.uncles,
                 !.panicked = @ \/ ~(old.uncles \subseteq l.marked_as_uncle)]
             chain2 == Append(chain, new_ancestor)
             next_id == B[new_ancestor].parent
         IN IF next_id = GENESIS_BLOCK
            THEN [l |-> undone, chain |-> chain2]
            ELSE IF next_id \notin l.blocks \/ old.parent \notin l.blocks
                 THEN [l |-> [undone EXCEPT !.panicked = TRUE], chain |-> chain2]
                 ELSE UndoOldFork(undone, B, next_id, old.parent, chain2)

\* A faulty apply loop that leaves the applied transactions in the mempool
RECURSIVE ApplyKeepingMempool(_, _, _)
ApplyKeepingMempool(l, B, chain) ==
    IF chain = <<>> THEN l
    ELSE LET new_block == B[chain[Len(chain)]]
             applied == [l EXCEPT
                 !.marked_as_uncle = @ \cup new_block.uncles,
                 !.applied_transactions = @ \cup new_block.transactions]
         IN ApplyKeepingMempool(applied, B, SubSeq(chain, 1, Len(chain) - 1))

\* update_chain_head, lines 332-343: apply the new blocks, oldest first (pop_back)
RECURSIVE ApplyNewChain(_, _, _)
ApplyNewChain(l, B, chain) ==
    IF chain = <<>> THEN l
    ELSE LET new_block == B[chain[Len(chain)]]
             applied == [l EXCEPT
                 !.panicked = @ \/ (new_block.uncles \cap l.marked_as_uncle # {}),
                 !.marked_as_uncle = @ \cup new_block.uncles,
                 !.mempool = @ \ new_block.transactions,
                 !.applied_transactions = @ \cup new_block.transactions]
         IN ApplyNewChain(applied, B, SubSeq(chain, 1, Len(chain) - 1))

\* update_chain_head, lines 351-356: walk back commit_delay parents
RECURSIVE CommittedBlock(_, _, _, _)
CommittedBlock(l, B, block, steps) ==
    IF steps = 0 THEN block
    ELSE IF B[block].parent \notin l.blocks THEN NoBlock
    ELSE CommittedBlock(l, B, B[block].parent, steps - 1)

\* update_chain_head, lines 346-373: the commit notifications
NotifyCommits(l, B, old_head, new_head, commit_delay) ==
    IF old_head # NoBlock
       /\ B[new_head].height > B[old_head].height
       /\ B[new_head].height > commit_delay
    THEN LET committed_block == CommittedBlock(l, B, new_head, commit_delay)
         IN IF committed_block = NoBlock
            THEN [l EXCEPT !.panicked = TRUE]
            ELSE LET txns == B[committed_block].transactions
                 IN IF ~(txns \subseteq l.known_transactions)
                       \/ ~(txns \subseteq l.applied_transactions)
                    THEN [l EXCEPT !.panicked = TRUE]
                    ELSE [l EXCEPT !.notified = @ \o SetToSeq(txns)]
    ELSE l

update_chain_head(l, B, old_head, new_head, commit_delay) ==
    LET undone ==
            IF old_head # NoBlock
            THEN IF B[old_head].height > B[new_head].height
                 THEN [l |-> [l EXCEPT !.panicked = TRUE], chain |-> <<>>]
                 ELSE LET w == WalkNewFork(l, B, new_head, B[old_head].height)
                      IN IF w.panicked
                         THEN [l |-> [l EXCEPT !.panicked = TRUE], chain |-> <<>>]
                         ELSE UndoOldFork(l, B, w.ancestor, old_head, w.chain)
            ELSE [l |-> l, chain |-> <<new_head>>]
        applied == ApplyNewChain(undone.l, B, undone.chain)
    IN IF undone.l.panicked THEN undone.l
       ELSE IF applied.panicked THEN applied
       ELSE NotifyCommits(applied, B, old_head, new_head, commit_delay)

\* add_new_block, lines 241-242: the fork set after inserting block_id
Ledger_update_forks(l, B, block_id) ==
    MapInsert(MapRemove(l.forks, B[block_id].parent), block_id, B[block_id].height)

\* A ledger that takes every block it is given as new
AlwaysNewBlock(l, block_id) == TRUE

\* add_new_block: the (bool, Option<head>) result
Ledger_is_new_block(l, block_id) == block_id \notin l.blocks

\* add_new_block on a ledger; pick is the outcome of pick_fork's random choice.
\* mark_as_seen (line 244) acts on the shared block and is applied by the caller.
Ledger_add_new_block(l, B, block_id, pick, commit_delay) ==
    IF block_id \in l.blocks
    THEN [l EXCEPT !.notified = <<>>]
    ELSE LET l1 == [l EXCEPT !.blocks = @ \cup {block_id},
                             !.forks = Ledger_update_forks(l, B, block_id),
                             !.notified = <<>>]
         IN IF B[block_id].height >= l1.longest_chain[2]
            THEN IF l1.longest_chain[1] = GENESIS_BLOCK
                 THEN IF pick[1] = GENESIS_BLOCK
                      THEN [l1 EXCEPT !.longest_chain = pick, !.panicked = TRUE]
                      ELSE update_chain_head([l1 EXCEPT !.longest_chain = pick],
                                             B, NoBlock, pick[1], commit_delay)
                 ELSE LET old_head == l1.longest_chain[1]
                      IN IF old_head # pick[1]
                         THEN update_chain_head([l1 EXCEPT !.longest_chain = pick],
                                                B, old_head, pick[1], commit_delay)
                         ELSE [l1 EXCEPT !.longest_chain = pick]
            ELSE l1

\* The picks add_new_block can draw for block_id (pick_fork runs on the updated forks)
Ledger_picks(l, B, block_id) ==
    IF block_id \in l.blocks THEN {l.longest_chain}
    ELSE pick_fork([l EXCEPT !.forks = Ledger_update_forks(l, B, block_id)])

\* The blocks on the chain from block id back to genesis
RECURSIVE Chain(_, _)
Chain(B, id) ==
    IF id = GENESIS_BLOCK \/ id \notin DOMAIN B THEN {}
    ELSE {id} \cup Chain(B, B[id].parent)

ChainTxs(B, id) == UNION {B[b].transactions : b \in Chain(B, id)}

(***************************************************************************)
(* SpecLedger: one ledger driven as ledger/nakamoto/tests.rs drives it.    *)
(* Blocks are the blocks miners produce: the parent is a known block, the  *)
(* transactions are known and in no block of the parent's chain.           *)
(***************************************************************************)
\* tests.rs: ledger.add_transaction(tx).  Transaction ids are opaque random
\* values, so a new transaction takes the next unused id.
LAddTransaction ==
    \E t \in TxIds :
        /\ ~ledger.panicked
        /\ t <= Cardinality(ledger.known_transactions) + 1
        /\ ledger' = Ledger_add_transaction(ledger, t)
        /\ UNCHANGED all_blocks
        /\ UNCHANGED OtherThanLedger

\* tests.rs: make_initial_block / make_next_block, then ledger.add_new_block(block)
LAddNewBlock ==
    \E parent \in ledger.blocks \cup {GENESIS_BLOCK} :
      \E txs \in SUBSET (ledger.known_transactions \ ChainTxs(all_blocks, parent)) :
        LET id == Len(all_blocks) + 1
            height == IF parent = GENESIS_BLOCK THEN GENESIS_HEIGHT + 1
                      ELSE all_blocks[parent].height + 1
            B == Append(all_blocks, NakamotoBlock_new(0, parent, {}, height, 0, txs))
        IN /\ ~ledger.panicked
           /\ Len(all_blocks) < MaxBlocks
           /\ Cardinality(txs) <= MaxBlockSize
           /\ \E pick \in Ledger_picks(ledger, B, id) :
                ledger' = Ledger_add_new_block(ledger, B, id, pick, CommitDelay)
           /\ all_blocks' = mark_as_seen(B, id)
           /\ UNCHANGED OtherThanLedger

\* add_new_block called again with a block the ledger already holds
LAddSameBlock ==
    \E id \in ledger.blocks :
        /\ ~ledger.panicked
        /\ \E pick \in Ledger_picks(ledger, all_blocks, id) :
             ledger' = Ledger_add_new_block(ledger, all_blocks, id, pick, CommitDelay)
        /\ UNCHANGED all_blocks
        /\ UNCHANGED OtherThanLedger

NextLedger == LAddTransaction \/ LAddNewBlock \/ LAddSameBlock

\* The head of the ledger and the transactions of the blocks on one chain only
ChainHead(l) == l.longest_chain[1]
OnlyOn(B, a, b) == UNION {B[x].transactions : x \in Chain(B, a) \ Chain(B, b)}

\* C37 as stated: applied_transactions is the set of the transactions of the
\* blocks on the chain of the head, and the mempool is the set of the known
\* transactions that are not applied.
C37_AppliedIsChain ==
    /\ ~ledger.panicked
    /\ ledger.applied_transactions = ChainTxs(all_blocks, ChainHead(ledger))
    /\ ledger.mempool = ledger.known_transactions \ ledger.applied_transactions

\* The head was switched to another fork: block c is on the chain of the
\* head although an older block b of at least its height is not, and a
\* transaction of b is back in the mempool
C37_Witness ==
    /\ ~ledger.panicked
    /\ ledger.applied_transactions # {}
    /\ \E b \in ledger.blocks \ Chain(all_blocks, ChainHead(ledger)) :
          \E c \in Chain(all_blocks, ChainHead(ledger)) :
              /\ b < c
              /\ all_blocks[c].height <= all_blocks[b].height
              /\ all_blocks[b].transactions \cap ledger.mempool # {}

\* C1 as stated: after a switch of the head from O to N, every transaction of
\* a block on the chain of N only is applied and not in the mempool, and every
\* transaction of a block on the chain of O only is in the mempool and not
\* applied.
C1_AsStated ==
    [][ ChainHead(ledger') # ChainHead(ledger) =>
          LET O == ChainHead(ledger)
              N == ChainHead(ledger')
          IN /\ \A t \in OnlyOn(all_blocks', N, O) :
                   t \in ledger'.applied_transactions /\ t \notin ledger'.mempool
             /\ \A t \in OnlyOn(all_blocks', O, N) :
                   t \in ledger'.mempool /\ t \notin ledger'.applied_transactions
      ]_vars

\* C1 amended: after a switch of the head from O to N, every transaction of a
\* block on the chain of N only is applied and not in the mempool, and every
\* transaction of a block on the chain of O only that is in no block on the
\* chain of N is in the mempool and not applied.
C1_Reorg ==
    [][ ChainHead(ledger') # ChainHead(ledger) =>
          LET O == ChainHead(ledger)
              N == ChainHead(ledger')
          IN /\ \A t \in OnlyOn(all_blocks', N, O) :
                   t \in ledger'.applied_transactions /\ t \notin ledger'.mempool
             /\ \A t \in OnlyOn(all_blocks', O, N) \ ChainTxs(all_blocks', N) :
                   t \in ledger'.mempool /\ t \notin ledger'.applied_transactions
      ]_vars

\* A reorganisation has happened: block 1, the first head, is off the chain of
\* the head, its transactions were undone and the new chain applied others.
C1_Witness ==
    /\ 1 \in ledger.blocks
    /\ 1 \notin Chain(all_blocks, ChainHead(ledger))
    /\ all_blocks[1].transactions # {}
    /\ all_blocks[1].transactions \subseteq ledger.mempool
    /\ ledger.applied_transactions # {}
    /\ ~ledger.panicked

\* C2: the head is a block of maximal height among the blocks added so far,
\* and the recorded length of the longest chain is that height; so the tip of
\* a fork strictly longer than every other fork is the head.
C2_HeadIsHighest ==
    ledger.blocks # {} =>
        /\ ChainHead(ledger) \in ledger.blocks
        /\ \A b \in ledger.blocks :
               all_blocks[b].height <= all_blocks[ChainHead(ledger)].height
        /\ ledger.longest_chain[2] = all_blocks[ChainHead(ledger)].height
        /\ \A f \in DOMAIN ledger.forks :
               (\A g \in DOMAIN ledger.forks \ {f} : ledger.forks[g] < ledger.forks[f])
                   => ChainHead(ledger) = f

\* Two forks of different length, the head on the longer one
C2_Witness ==
    /\ Cardinality(DOMAIN ledger.forks) >= 2
    /\ \E f \in DOMAIN ledger.forks : ledger.forks[f] < ledger.longest_chain[2]
    /\ ledger.longest_chain[2] >= 2
    /\ ~ledger.panicked

\* No panic of the ledger is reachable when it is driven with well-formed blocks
LedgerNeverPanics == ~ledger.panicked

(***************************************************************************)
(* cow-tree/src/lib.rs and node.rs: the copy-on-write trie.  A key is a    *)
(* Hash of 32 bytes; a node is a record tagged with its enum variant, and  *)
(* an Option is the node or None.                                          *)
(***************************************************************************)
BITS_PER_NODE == 4
HASH_LENGTH == 256
NUM_STEPS == HASH_LENGTH \div BITS_PER_NODE
CHILDREN_PER_BRANCH == 2 ^ BITS_PER_NODE

MaxInserts == 3         \* insert calls in one run of the trie model
NumValues == 2          \* values 1..NumValues

\* A node with the nodes below it is a function from the path below the node
\* (the child indices, one per level) to the variant at the end of the path;
\* the node itself is at the empty path.  Option::None is the empty function.
None == <<>>
Panic == (<<>> :> [kind |-> "Panic"])   \* the result of an operation that panicked

\* Option<&V> results of get: a value, NoValue for None, PanicValue for a panic
NoValue == 0
PanicValue == 0 - 1

\* Hashes that differ in the first nibble (step 0) and in the last (step 63)
HashOf(first_byte, last_byte) ==
    [i \in 1..(HASH_LENGTH \div 8) |->
        IF i = 1 THEN first_byte ELSE IF i = HASH_LENGTH \div 8 THEN last_byte ELSE 0]
CowKeys == {HashOf(a, b) : a \in {0, 1}, b \in {0, 16}}
CowValues == 1..NumValues

\* CowTree::get_index; key[i] of the code is key[i + 1] here
get_index(key, step) ==
    LET byte == key[(step \div 2) + 1]
    IN IF step % 2 = 0 THEN byte % 16 ELSE (byte \div 16) % 16

\* The variant of a node, the node under child index idx, the node without it,
\* and the node with child idx replaced
Variant(node) == node[<<>>]
ChildAt(node, idx) ==
    [p \in {Tail(q) : q \in {q \in DOMAIN node : q # <<>> /\ q[1] = idx}} |->
        node[<<idx>> \o p]]
WithoutChild(node, idx) ==
    [p \in {q \in DOMAIN node : q = <<>> \/ q[1] # idx} |-> node[p]]
WithChild(node, idx, child) ==
    [p \in DOMAIN WithoutChild(node, idx) \cup {<<idx>> \o q : q \in DOMAIN child} |->
        IF p # <<>> /\ p[1] = idx THEN child[Tail(p)] ELSE node[p]]

make_reference(frozen_node) == (<<>> :> [kind |-> "Reference", node |-> frozen_node])
make_branch == (<<>> :> [kind |-> "Branch"])
make_extension(idx) == (<<>> :> [kind |-> "Extension", bits |-> idx])
make_leaf(value) == (<<>> :> [kind |-> "Leaf", value |-> value])

\* Node::take_child: the child taken (or None, or Panic) and the node left behind
take_child(node, idx) ==
    CASE Variant(node).kind = "Leaf" -> [child |-> Panic, node |-> node]
      [] Variant(node).kind = "Branch" ->
            [child |-> ChildAt(node, idx), node |-> WithoutChild(node, idx)]
      [] Variant(node).kind = "Extension" ->
            IF Variant(node).bits = idx
            THEN [child |-> ChildAt(node, idx), node |-> WithoutChild(node, idx)]
            ELSE [child |-> None, node |-> node]
      [] Variant(node).kind = "Reference" -> [child |-> Panic, node |-> node]

\* Node::get_child
Node_get_child(node, idx) ==
    CASE Variant(node).kind = "Leaf" -> Panic
      [] Variant(node).kind = "Branch" -> ChildAt(node, idx)
      [] Variant(node).kind = "Extension" ->
            IF Variant(node).bits = idx THEN ChildAt(node, idx) ELSE None
      [] Variant(node).kind = "Reference" -> Panic

\* Node::set_child: the node after the call, or Panic
set_child(node, idx, new_child) ==
    CASE Variant(node).kind = "Leaf" -> Panic
      [] Variant(node).kind = "Branch" -> WithChild(node, idx, new_child)
      [] Variant(node).kind = "Extension" ->
            IF Variant(node).bits # idx THEN Panic ELSE WithChild(node, idx, new_child)
      [] Variant(node).kind = "Reference" -> Panic

\* Node::into_branch: children[bits] = child
into_branch(node) ==
    IF Variant(node).kind = "Extension"
    THEN [node EXCEPT ![<<>>] = [kind |-> "Branch"]]
    ELSE Panic

is_branch(node) == Variant(node).kind = "Branch"

\* Node::into_frozen: the FrozenNode, or Panic for the unwrap of an Extension
\* without a child (line 49); a FrozenNode is tagged like a Node
into_frozen(node) ==
    IF \E p \in DOMAIN node :
           node[p].kind = "Extension" /\ (p \o <<node[p].bits>>) \notin DOMAIN node
    THEN Panic
    ELSE [p \in DOMAIN node |->
            CASE node[p].kind = "Branch" -> [kind |-> "Branch"]
              [] node[p].kind = "Reference" -> [kind |-> "Reference", node |-> node[p].node]
              [] node[p].kind = "Extension" -> [kind |-> "Extension", bits |-> node[p].bits]
              [] node[p].kind = "Leaf" -> [kind |-> "Leaf", value |-> node[p].value]]

\* FrozenNode::to_reference
to_reference(self_ptr) ==
    IF Variant(self_ptr).kind = "Reference" THEN Variant(self_ptr).node ELSE self_ptr

\* FrozenNode::get_child
RECURSIVE Frozen_get_child(_, _)
Frozen_get_child(node, idx) ==
    CASE Variant(node).kind = "Leaf" -> Panic
      [] Variant(node).kind = "Branch" -> ChildAt(node, idx)
      [] Variant(node).kind = "Extension" ->
            IF Variant(node).bits = idx THEN ChildAt(node, idx) ELSE None
      [] Variant(node).kind = "Reference" ->
            IF Variant(Variant(node).node).kind # "Reference" THEN Panic
            ELSE Frozen_get_child(Variant(node).node, idx)

\* CowTree::insert, lines 50-63: one iteration of the first loop
TakeStep(s, key) ==
    IF s.stopped \/ s.panicked THEN s
    ELSE LET idx == get_index(key, s.step)
             r == IF s.step = 0 THEN take_child(s.root, idx)
                  ELSE take_child(s.nodes[s.step].node, idx)
             root == IF s.step = 0 THEN r.node ELSE s.root
             nodes == IF s.step = 0 THEN s.nodes
                      ELSE [s.nodes EXCEPT ![s.step].node = r.node]
         IN IF r.child = Panic THEN [s EXCEPT !.panicked = TRUE]
            ELSE IF r.child # None
                 THEN [s EXCEPT !.root = root,
                                !.nodes = Append(nodes, [idx |-> idx, node |-> r.child]),
                                !.step = @ + 1]
                 ELSE [s EXCEPT !.root = root, !.nodes = nodes, !.stopped = TRUE]

\* CowTree::insert, lines 49-64: n iterations of the first loop
RECURSIVE TakePath(_, _, _)
TakePath(s, n, key) ==
    IF n = 0 THEN s
    ELSE IF n = 1 THEN TakeStep(s, key)
    ELSE LET first == TakePath(s, n \div 2, key)
         IN IF first.stopped \/ first.panicked THEN first
            ELSE TakePath(first, n - (n \div 2), key)

\* CowTree::insert, lines 68-72: nodes[step] of the code is nodes[step + 1] here
SplitLast(nodes, step) ==
    IF nodes # <<>>
    THEN IF step + 1 > Len(nodes)
         THEN [nodes |-> nodes, panicked |-> TRUE]      \* index out of bounds
         ELSE IF ~is_branch(nodes[step + 1].node)
              THEN LET last == nodes[Len(nodes)]
                       branch == into_branch(last.node)
                   IN [nodes |-> Append(SubSeq(nodes, 1, Len(nodes) - 1),
                                        [idx |-> last.idx, node |-> branch]),
                       panicked |-> branch = Panic]
              ELSE [nodes |-> nodes, panicked |-> FALSE]
    ELSE [nodes |-> nodes, panicked |-> FALSE]

\* CowTree::insert, lines 74-81: one extension per remaining step
PushExtensions(nodes, step, key) ==
    nodes \o [i \in 1..(NUM_STEPS - 1 - step) |->
                 [idx |-> get_index(key, step + i - 1),
                  node |-> make_extension(get_index(key, step + i))]]

\* CowTree::insert, lines 89-95: one iteration of the last loop
LinkStep(s) ==
    IF s.panicked \/ s.nodes = <<>> THEN s
    ELSE LET popped == s.nodes[Len(s.nodes)]
             node == IF s.last_node # <<>>
                     THEN set_child(popped.node, s.last_node[1].idx, s.last_node[1].node)
                     ELSE popped.node
         IN IF node = Panic THEN [s EXCEPT !.panicked = TRUE]
            ELSE [s EXCEPT !.nodes = SubSeq(s.nodes, 1, Len(s.nodes) - 1),
                           !.last_node = <<[idx |-> popped.idx, node |-> node]>>]

\* CowTree::insert, lines 89-95: n iterations of the last loop
RECURSIVE LinkNodes(_, _)
LinkNodes(s, n) ==
    IF n = 0 THEN s
    ELSE IF n = 1 THEN LinkStep(s)
    ELSE LET first == LinkNodes(s, n \div 2)
         IN IF first.panicked THEN first
            ELSE LinkNodes(first, n - (n \div 2))

\* CowTree::insert: the root after the call and whether the call panicked
insert(root, key, value) ==
    LET taken == TakePath([root |-> root, nodes |-> <<>>, step |-> 0,
                           stopped |-> FALSE, panicked |-> FALSE],
                          NUM_STEPS - 2, key)
        split == SplitLast(taken.nodes, taken.step)
        nodes == Append(PushExtensions(split.nodes, taken.step, key),
                        [idx |-> get_index(key, NUM_STEPS - 1), node |-> make_leaf(value)])
        linked == LinkNodes([nodes |-> nodes, last_node |-> <<>>, panicked |-> FALSE],
                            Len(nodes))
        new_root == set_child(taken.root, linked.last_node[1].idx, linked.last_node[1].node)
    IN IF taken.panicked \/ Len(taken.nodes) # taken.step \/ split.panicked
          \/ Len(nodes) # NUM_STEPS \/ linked.panicked \/ new_root = Panic
       THEN [root |-> root, panicked |-> TRUE]
       ELSE [root |-> new_root, panicked |-> FALSE]

\* Node::get_value and FrozenNode::get_value
get_value(node) ==
    IF Variant(node).kind = "Leaf" THEN Variant(node).value ELSE PanicValue

\* CowTree::get_frozen and FrozenCowTree::get: one iteration of the loop
FrozenGetStep(s, key) ==
    IF s.done THEN s
    ELSE LET child == Frozen_get_child(s.node, get_index(key, s.step))
         IN IF child = Panic THEN [s EXCEPT !.done = TRUE, !.result = PanicValue]
            ELSE IF child = None THEN [s EXCEPT !.done = TRUE, !.result = NoValue]
            ELSE [s EXCEPT !.node = child, !.step = @ + 1]

RECURSIVE FrozenGetLoop(_, _, _)
FrozenGetLoop(s, n, key) ==
    IF n = 0 THEN s
    ELSE IF n = 1 THEN FrozenGetStep(s, key)
    ELSE LET first == FrozenGetLoop(s, n \div 2, key)
         IN IF first.done THEN first
            ELSE FrozenGetLoop(first, n - (n \div 2), key)

\* CowTree::get_frozen
get_frozen(key, start_step, start) ==
    LET s == FrozenGetLoop([node |-> start, step |-> start_step, done |-> FALSE,
                            result |-> NoValue], NUM_STEPS - start_step, key)
    IN IF s.done THEN s.result ELSE get_value(s.node)

\* CowTree::get: one iteration of the loop
GetStep(s, key) ==
    IF s.done THEN s
    ELSE IF Variant(s.node).kind = "Reference"
         THEN [s EXCEPT !.done = TRUE,
                        !.result = get_frozen(key, s.step, Variant(s.node).node)]
         ELSE LET child == Node_get_child(s.node, get_index(key, s.step))
              IN IF child = Panic THEN [s EXCEPT !.done = TRUE, !.result = PanicValue]
                 ELSE IF child = None THEN [s EXCEPT !.done = TRUE, !.result = NoValue]
                 ELSE [s EXCEPT !.node = child, !.step = @ + 1]

RECURSIVE GetLoop(_, _, _)
GetLoop(s, n, key) ==
    IF n = 0 THEN s
    ELSE IF n = 1 THEN GetStep(s, key)
    ELSE LET first == GetLoop(s, n \div 2, key)
         IN IF first.done THEN first
            ELSE GetLoop(first, n - (n \div 2), key)

\* CowTree::get
CowTree_get(root, key) ==
    LET s == GetLoop([node |-> root, step |-> 0, done |-> FALSE, result |-> NoValue],
                     NUM_STEPS, key)
    IN IF s.done THEN s.result ELSE get_value(s.node)

\* FrozenCowTree::get
FrozenCowTree_get(root, key) == get_frozen(key, 0, root)

\* FrozenCowTree::deep_clone: the root of the new CowTree, or Panic
deep_clone(root) ==
    IF Variant(root).kind = "Branch"
    THEN LET refs == {pos \in 0..(CHILDREN_PER_BRANCH - 1) : ChildAt(root, pos) # None}
         IN [p \in {<<>>} \cup {<<pos>> : pos \in refs} |->
                IF p = <<>> THEN Variant(make_branch)
                ELSE Variant(make_reference(to_reference(ChildAt(root, p[1]))))]
    ELSE Panic

(***************************************************************************)
(* The trie driven as in the tests of cow-tree/src/lib.rs: inserts into a  *)
(* tree, freeze, deep_clone, inserts into the clone.                       *)
(***************************************************************************)
\* tree.insert(&key, value) on the first tree
CowInsert ==
    \E key \in CowKeys, value \in CowValues :
        LET r == insert(cow_tree, key, value)
        IN /\ ~cow_panicked
           /\ cow_tree # None
           /\ Len(cow_log) < MaxInserts
           /\ cow_tree' = r.root
           /\ cow_panicked' = r.panicked
           /\ cow_log' = Append(cow_log, <<1, key, value>>)
           /\ UNCHANGED <<cow_frozen, cow_clone>>
           /\ UNCHANGED OtherThanCow

\* let frozen = tree.freeze()
CowFreeze ==
    LET f == into_frozen(cow_tree)
    IN /\ ~cow_panicked
       /\ cow_tree # None
       /\ cow_tree' = None
       /\ cow_frozen' = IF f = Panic THEN None ELSE f
       /\ cow_panicked' = (f = Panic)
       /\ UNCHANGED <<cow_clone, cow_log>>
       /\ UNCHANGED OtherThanCow

\* let mut tree2 = frozen.deep_clone()
CowDeepClone ==
    LET c == deep_clone(cow_frozen)
    IN /\ ~cow_panicked
       /\ cow_frozen # None
       /\ cow_clone = None
       /\ cow_clone' = IF c = Panic THEN None ELSE c
       /\ cow_panicked' = (c = Panic)
       /\ UNCHANGED <<cow_tree, cow_frozen, cow_log>>
       /\ UNCHANGED OtherThanCow

\* tree2.insert(&key, value) on the clone
CowInsertClone ==
    \E key \in CowKeys, value \in CowValues :
        LET r == insert(cow_clone, key, value)
        IN /\ ~cow_panicked
           /\ cow_clone # None
           /\ Len(cow_log) < MaxInserts
           /\ cow_clone' = r.root
           /\ cow_panicked' = r.panicked
           /\ cow_log' = Append(cow_log, <<2, key, value>>)
           /\ UNCHANGED <<cow_tree, cow_frozen>>
           /\ UNCHANGED OtherThanCow

NextCow == CowInsert \/ CowFreeze \/ CowDeepClone \/ CowInsertClone

\* The run insert(empty, k, v); freeze; deep_clone; insert(clone, k2, v2) with
\* distinct keys has been made
CowCloneRun ==
    /\ Len(cow_log) = 2
    /\ cow_log[1][1] = 1
    /\ cow_log[2][1] = 2
    /\ cow_log[1][2] # cow_log[2][2]

\* C4 as stated: for distinct keys k, k2, after insert(empty, k, v), freeze,
\* deep_clone and insert(clone, k2, v2), the insert has completed, the frozen
\* tree returns v for k and None for k2, and the clone returns v for k and v2
\* for k2.
C4_AsStated ==
    CowCloneRun =>
        LET k == cow_log[1][2]
            v == cow_log[1][3]
            k2 == cow_log[2][2]
            v2 == cow_log[2][3]
        IN /\ ~cow_panicked
           /\ FrozenCowTree_get(cow_frozen, k) = v
           /\ FrozenCowTree_get(cow_frozen, k2) = NoValue
           /\ CowTree_get(cow_clone, k) = v
           /\ CowTree_get(cow_clone, k2) = v2

\* The insert into the clone panicked for a key that shares its first nibble
\* with the key of the frozen tree
C4_Witness ==
    /\ CowCloneRun
    /\ cow_panicked
    /\ get_index(cow_log[1][2], 0) = get_index(cow_log[2][2], 0)

\* C16 as stated: inserting the same (key, value) into a mutable tree a
\* second time completes and every lookup returns what it returned after the
\* first insert.
C16_AsStated ==
    (Len(cow_log) = 2 /\ cow_log[1][1] = 1 /\ cow_log[2] = cow_log[1] /\ cow_tree # None) =>
        /\ ~cow_panicked
        /\ \A key \in CowKeys :
               CowTree_get(cow_tree, key)
                   = CowTree_get(insert(make_branch, cow_log[1][2], cow_log[1][3]).root, key)

\* C17 as stated: after inserts with pairwise distinct keys into an empty
\* mutable tree, get returns for every inserted key its value and None for
\* every other key.
C17_AsStated ==
    (/\ cow_log # <<>>
     /\ cow_tree # None
     /\ \A i \in 1..Len(cow_log) : cow_log[i][1] = 1
     /\ \A i, j \in 1..Len(cow_log) : i # j => cow_log[i][2] # cow_log[j][2]) =>
        /\ ~cow_panicked
        /\ \A key \in CowKeys :
               CowTree_get(cow_tree, key) =
                   IF \E i \in 1..Len(cow_log) : cow_log[i][2] = key
                   THEN cow_log[CHOOSE i \in 1..Len(cow_log) : cow_log[i][2] = key][3]
                   ELSE NoValue

\* C32 as stated: for a tree t obtained from deep_clone(f) and inserts that
\* completed, freeze(t) completes and freeze(t).get(k) completes and returns
\* for every key k what t.get(k) returns.
C32_AsStated ==
    (cow_clone # None /\ ~cow_panicked) =>
        /\ into_frozen(cow_clone) # Panic
        /\ \A key \in CowKeys :
               FrozenCowTree_get(into_frozen(cow_clone), key) = CowTree_get(cow_clone, key)

(***************************************************************************)
(* logic/pbft: PBFT with a fixed leader.  A handler is evaluated on a      *)
(* record r that holds the NodeState and what the handler did so far: the  *)
(* messages broadcast, the blocks accepted, the transactions whose client  *)
(* at this node was notified, and whether it panicked.                     *)
(***************************************************************************)
PbftNumNodes == 3       \* nodes of the PBFT network
PbftNumClients == 2     \* clients of the workload
MaxNonce == 1           \* transactions one client issues
PbftMaxBlockSize == 1   \* max_block_size of the PBFT configuration

PbftNodeIds == 0..(PbftNumNodes - 1)
PbftClientIds == 1..PbftNumClients

\* PbftGlobalLogic::instantiate: quorum_size
quorum_size == PbftNumNodes - ((PbftNumNodes - 1) \div 3)

\* Option::None of last_proposed_round (rounds start at 1) and of Client.node
NoRound == 0
NoNode == 0 - 1

\* RoundState::default; block is <<>> for None and <<block>> for Some(block)
RoundState_default == [block |-> <<>>, prepared_nodes |-> {}, committed_nodes |-> {}]

\* PbftNodeLogic::new, with NodeData.clients
PbftNodeLogic_new(node_id) ==
    [ role |-> IF node_id = 0 THEN "Leader" ELSE "Replica",
      current_round |-> 1,
      rounds |-> MapInsert(EmptyMap, 1, RoundState_default),
      pending_messages |-> EmptyMap,
      mempool |-> {},
      last_proposed_round |-> NoRound,
      clients |-> {} ]

\* The record a handler starts from
Handling(state) ==
    [state |-> state, sent |-> <<>>, accepted |-> <<>>, commits |-> {}, panicked |-> FALSE]

\* PbftMessage::get_slot
get_slot(message) ==
    IF message.type = "PrePrepare" THEN message.block.slot ELSE message.slot

\* A leader that proposes whether or not a block is outstanding
ShouldProposeAlways(state) == state.role = "Leader"

\* NodeState::should_propose_block; the assert fails in ShouldProposeAsserts
should_propose_block(state) ==
    /\ state.role = "Leader"
    /\ state.last_proposed_round # NoRound => state.last_proposed_round < state.current_round

ShouldProposeAsserts(state) ==
    /\ state.role = "Leader"
    /\ state.last_proposed_round # NoRound
    /\ state.last_proposed_round > state.current_round

\* NodeState::add_transaction; source is NoNode for None.  The wake-up of the
\* leader (propose_notify) is part of the guard of PbftPropose.
Pbft_add_transaction(r, txn, source) ==
    IF txn \in r.state.mempool THEN r
    ELSE LET r1 == [r EXCEPT !.state.mempool = @ \cup {txn}]
             r2 == IF source = NoNode
                   THEN [r1 EXCEPT !.sent = Append(@, [type |-> "SendTransaction", txn |-> txn])]
                   ELSE r1
         IN [r2 EXCEPT !.panicked = @ \/ ShouldProposeAsserts(r.state)]

RECURSIVE handle_message(_, _, _, _)
RECURSIVE maybe_finalize(_, _)
RECURSIVE DrainPending(_, _, _)

\* NodeState::maybe_finalize, lines 182-194: the pending messages of the new round
DrainPending(r, self, messages) ==
    IF messages = <<>> \/ r.panicked THEN r
    ELSE DrainPending(handle_message(r, self, messages[1][1], messages[1][2]),
                      self, Tail(messages))

\* NodeState::maybe_finalize
maybe_finalize(r, self) ==
    LET cur == r.state.current_round
        round == r.state.rounds[cur]
    IN IF Cardinality(round.committed_nodes) >= quorum_size /\ self \in round.committed_nodes
       THEN IF round.block = <<>> THEN [r EXCEPT !.panicked = TRUE]
            ELSE LET block == round.block[1]
                     messages == IF (cur + 1) \in DOMAIN r.state.pending_messages
                                 THEN r.state.pending_messages[cur + 1] ELSE <<>>
                     r1 == [r EXCEPT
                              !.accepted = Append(@, block),
                              !.commits = @ \cup {t \in block.transactions :
                                                     t[1] \in r.state.clients},
                              !.state.current_round = cur + 1,
                              !.state.rounds = MapInsert(@, cur + 1, RoundState_default),
                              !.state.pending_messages = MapRemove(@, cur + 1)]
                 IN DrainPending(r1, self, messages)
       ELSE r

\* NodeState::maybe_commit
maybe_commit(r, self) ==
    LET cur == r.state.current_round
        round == r.state.rounds[cur]
    IN IF /\ Cardinality(round.prepared_nodes) >= quorum_size
          /\ self \in round.prepared_nodes
          /\ self \notin round.committed_nodes
       THEN maybe_finalize(
                [r EXCEPT !.state.rounds[cur].committed_nodes = @ \cup {self},
                          !.sent = Append(@, [type |-> "Commit", slot |-> cur])],
                self)
       ELSE r

\* NodeState::handle_message
handle_message(r, self, source, message) ==
    IF message.type = "SendTransaction"
    THEN Pbft_add_transaction(r, message.txn, source)
    ELSE LET round_num == get_slot(message)
         IN IF r.state.current_round < round_num
            THEN [r EXCEPT !.state.pending_messages =
                     MapInsert(@, round_num,
                               Append(IF round_num \in DOMAIN @ THEN @[round_num] ELSE <<>>,
                                      <<source, message>>))]
            ELSE IF round_num \notin DOMAIN r.state.rounds
                 THEN [r EXCEPT !.panicked = TRUE]
                 ELSE CASE message.type = "PrePrepare" ->
                             IF r.state.rounds[round_num].block # <<>>
                             THEN [r EXCEPT !.panicked = TRUE]
                             ELSE maybe_commit(
                                      [r EXCEPT
                                         !.state.rounds[round_num].block = <<message.block>>,
                                         !.state.rounds[round_num].prepared_nodes = @ \cup {self},
                                         !.sent = Append(@, [type |-> "Prepare",
                                                             slot |-> round_num])],
                                      self)
                        [] message.type = "Prepare" ->
                             maybe_commit(
                                 [r EXCEPT !.state.rounds[round_num].prepared_nodes =
                                              @ \cup {source}],
                                 self)
                        [] message.type = "Commit" ->
                             maybe_finalize(
                                 [r EXCEPT !.state.rounds[round_num].committed_nodes =
                                              @ \cup {source}],
                                 self)

\* ConventionalNodeLedger::get_transactions_from_mempool: the transactions a
\* call can return (the drain order is arbitrary); the drain empties the mempool
get_transactions_from_mempool(mempool, max_block_size) ==
    {T \in SUBSET mempool :
        Cardinality(T) = IF Cardinality(mempool) < max_block_size
                         THEN Cardinality(mempool) ELSE max_block_size}

\* A copy that names another block than the one the leader handles itself
CloneOtherBlock(message) == [message EXCEPT !.block.id = 0 - @]

\* propose_block, line 342: the copy of the message that is broadcast
message_clone(message) == message

\* NodeState::propose_block
propose_block(r, self, block_id, transactions) ==
    LET cur == r.state.current_round
        has_parent == cur = 1 \/ ((cur - 1) \in DOMAIN r.state.rounds
                                  /\ r.state.rounds[cur - 1].block # <<>>)
        parent == IF cur > 1 THEN r.state.rounds[cur - 1].block[1].id ELSE GENESIS_BLOCK
    IN IF ~has_parent \/ transactions = {}
       THEN [r EXCEPT !.panicked = TRUE]
       ELSE LET block == [id |-> block_id, parent |-> parent, mined_by |-> self,
                          transactions |-> transactions, slot |-> cur]
                message == [type |-> "PrePrepare", block |-> block]
            IN handle_message(
                   [r EXCEPT !.state.last_proposed_round = cur,
                             !.state.mempool = {},
                             !.sent = Append(@, message_clone(message))],
                   self, self, message)

\* Client::new
Client_new == [node |-> NoNode, nonce |-> 0, waiting |-> FALSE, notified |-> FALSE,
               latencies |-> 0]

\* Node::broadcast(message, None) for each message sent; a link keeps the order
PbftBroadcast(net, self, sent) ==
    [l \in DOMAIN net |-> IF l[1] = self THEN net[l] \o sent ELSE net[l]]

\* Client::notify_transaction_commit for every notified transaction
PbftNotifyClients(clients, commits) ==
    [c \in DOMAIN clients |->
        LET n == Cardinality({t \in commits : t[1] = c})
        IN IF n = 0 THEN clients[c]
           ELSE [clients[c] EXCEPT !.latencies = @ + n, !.notified = TRUE]]

\* What a handler that ran at node self leaves behind
PbftApply(r, self, net, clients) ==
    /\ pbft_nodes' = [pbft_nodes EXCEPT ![self] = r.state]
    /\ pbft_net' = PbftBroadcast(net, self, r.sent)
    /\ pbft_clients' = PbftNotifyClients(clients, r.commits)
    /\ pbft_finalized' = [pbft_finalized EXCEPT ![self] = @ \o r.accepted]
    /\ pbft_panicked' = r.panicked

\* build_scene, lines 705-727: a client is attached to a random node and spawned
PbftCreateClient ==
    \E c \in PbftClientIds, n \in PbftNodeIds :
        /\ ~pbft_panicked
        /\ pbft_clients[c].node = NoNode
        /\ pbft_clients' = [pbft_clients EXCEPT ![c].node = n]
        /\ pbft_nodes' = [pbft_nodes EXCEPT ![n].clients = @ \cup {c}]
        /\ UNCHANGED <<pbft_net, pbft_blocks, pbft_finalized, pbft_panicked>>
        /\ UNCHANGED OtherThanPbft

\* Client::run, lines 57-74: issue the next transaction and wait for its commit
PbftClientIssue ==
    \E c \in PbftClientIds :
        LET n == pbft_clients[c].node
            txn == <<c, pbft_clients[c].nonce + 1>>
            r == Pbft_add_transaction(Handling(pbft_nodes[n]), txn, c)
        IN /\ ~pbft_panicked
           /\ n # NoNode
           /\ ~pbft_clients[c].waiting
           /\ pbft_clients[c].nonce < MaxNonce
           /\ PbftApply(r, n, pbft_net,
                        [pbft_clients EXCEPT ![c].nonce = @ + 1, ![c].waiting = TRUE])
           /\ UNCHANGED pbft_blocks
           /\ UNCHANGED OtherThanPbft

\* Client::run, lines 74-79: commit_notify.notified() returns
PbftClientWake ==
    \E c \in PbftClientIds :
        /\ ~pbft_panicked
        /\ pbft_clients[c].waiting
        /\ pbft_clients[c].notified
        /\ pbft_clients' = [pbft_clients EXCEPT ![c].waiting = FALSE, ![c].notified = FALSE]
        /\ UNCHANGED <<pbft_nodes, pbft_net, pbft_blocks, pbft_finalized, pbft_panicked>>
        /\ UNCHANGED OtherThanPbft

\* PbftNodeLogic::run at the leader: should_propose_block and can_propose_block
\* hold (the mempool is not empty; it is full or the block interval elapsed)
PbftPropose ==
    \E self \in PbftNodeIds :
      \E transactions \in get_transactions_from_mempool(pbft_nodes[self].mempool,
                                                         PbftMaxBlockSize) :
        LET block_id == Len(pbft_blocks) + 1
            r == propose_block(Handling(pbft_nodes[self]), self, block_id, transactions)
        IN /\ ~pbft_panicked
           /\ should_propose_block(pbft_nodes[self])
           /\ pbft_nodes[self].mempool # {}
           /\ PbftApply(r, self, pbft_net, pbft_clients)
           /\ pbft_blocks' = Append(pbft_blocks, transactions)
           /\ UNCHANGED OtherThanPbft

\* A message arrives: NodeCallback::handle_message, PbftNodeLogic::handle_message
PbftDeliver ==
    \E l \in DOMAIN pbft_net :
        LET self == l[2]
            r == handle_message(Handling(pbft_nodes[self]), self, l[1], Head(pbft_net[l]))
        IN /\ ~pbft_panicked
           /\ pbft_net[l] # <<>>
           /\ PbftApply(r, self, [pbft_net EXCEPT ![l] = Tail(@)], pbft_clients)
           /\ UNCHANGED pbft_blocks
           /\ UNCHANGED OtherThanPbft

NextPbft == PbftCreateClient \/ PbftClientIssue \/ PbftClientWake \/ PbftPropose \/ PbftDeliver

\* The timers fire, asim runs every spawned task and delivers every message
FairPbft ==
    /\ WF_vars(PbftCreateClient)
    /\ WF_vars(PbftClientIssue)
    /\ WF_vars(PbftClientWake)
    /\ WF_vars(PbftPropose)
    /\ \A l \in {<<a, b>> \in PbftNodeIds \X PbftNodeIds : a # b} :
          WF_vars(PbftDeliver /\ pbft_net[l] # <<>> /\ pbft_net'[l] = Tail(pbft_net[l]))

\* The blocks node n finalized
PbftFinalizedBy(n) == {pbft_finalized[n][i] : i \in 1..Len(pbft_finalized[n])}

\* C3: no two distinct blocks are finalized for the same slot: whichever nodes
\* finalize a slot, and in whatever order the messages arrive, they finalize
\* the same block.
C3_OneBlockPerSlot ==
    \A n1 \in PbftNodeIds, n2 \in PbftNodeIds :
        \A b1 \in PbftFinalizedBy(n1), b2 \in PbftFinalizedBy(n2) :
            b1.slot = b2.slot => b1 = b2

\* Every node finalized slot 1, and the leader and a replica finalized slot 2
C3_Witness ==
    /\ \A n \in PbftNodeIds : Len(pbft_finalized[n]) >= 1
    /\ \E n \in PbftNodeIds \ {0} : Len(pbft_finalized[n]) >= 2 /\ Len(pbft_finalized[0]) >= 2
    /\ ~pbft_panicked

\* Transaction <<c, k>> is in a block that some node finalized
PbftInFinalizedBlock(c, k) ==
    \E n \in PbftNodeIds : \E b \in PbftFinalizedBy(n) : <<c, k>> \in b.transactions

\* C5: with no faulty node, every transaction a client issued, whichever node
\* the client is attached to, is eventually in a finalized block and its client
\* is then notified of the commit.
C5_AsStated ==
    \A c \in PbftClientIds : \A k \in 1..MaxNonce :
        (pbft_clients[c].nonce >= k)
            ~> (PbftInFinalizedBlock(c, k) /\ pbft_clients[c].latencies >= k)

\* A client attached to a replica has issued its transaction, every link is
\* empty, and the transaction is in no block
C5_Witness ==
    \E c \in PbftClientIds :
        /\ pbft_clients[c].node \notin {NoNode, 0}
        /\ pbft_clients[c].nonce = 1
        /\ \A l \in DOMAIN pbft_net : pbft_net[l] = <<>>
        /\ \A i \in 1..Len(pbft_blocks) : <<c, 1>> \notin pbft_blocks[i]
        /\ ~pbft_panicked

(***************************************************************************)
(* logic/nakamoto: the nodes of a Nakamoto network.  As for PBFT a handler *)
(* is evaluated on a record r: the NodeState, the shared blocks B, the     *)
(* messages sent as <<destination, message>>, and the add_new_block calls. *)
(***************************************************************************)
NkNumNodes == 3         \* nodes of the Nakamoto network, fully connected
NkNumMiners == 1        \* num_mining_nodes: nodes 0..NkNumMiners-1 mine
NkMaxBlocks == 2        \* blocks mined in one run
NkNumTxs == 1           \* transactions issued by clients in one run
NkMinerTxs == 2         \* transactions issued by the clients of the mining node
NkMinedBlocks == 1      \* blocks mined in one run of that network
NkGhostMiners == 2      \* mining nodes of the network with GHOST
NkGhostBlocks == 4      \* blocks mined in one run of that network

NkNodeIds == 0..(NkNumNodes - 1)
NkLinks == {<<a, b>> \in NkNodeIds \X NkNodeIds : a # b}

\* NakamotoConsensus.use_ghost
use_ghost == FALSE

\* Failures::num_correct_nodes: the network has no faulty node
num_correct_nodes == NkNumNodes - 0

\* NakamotoGlobalLogic::instantiate, with NakamotoGlobalLedger::new(num_block_generators)
NakamotoGlobalLogic_instantiate(num_block_generators, max_block_size) ==
    [ global_ledger |-> [num_nodes |-> num_block_generators],
      num_block_generators |-> num_block_generators,
      max_block_size |-> max_block_size ]

\* SimulationInner::initialize_logic for ProtocolConfiguration::NakamotoConsensus:
\* the arguments in the order of the call
initialize_logic == NakamotoGlobalLogic_instantiate(MaxBlockSize, num_correct_nodes)

\* NakamotoNodeLogic::new
NakamotoNodeLogic_new ==
    [ local_ledger |-> NakamotoNodeLedger_new,
      requested_blocks |-> {},
      requested_transactions |-> {},
      pending_blocks_ancestors |-> EmptyMap,
      pending_blocks_transactions |-> EmptyMap ]

NkHandling(state, B) ==
    [state |-> state, B |-> B, sent |-> <<>>, calls |-> <<>>, panicked |-> FALSE]

NkMsg(type, id) == [type |-> type, id |-> id]

\* A send_to that reaches the node after the one it is meant for
NkSendToNext(r, dest, message) ==
    [r EXCEPT !.sent = Append(@, <<(dest + 1) % NkNumNodes, message>>)]

\* Node::send_to and Node::broadcast(message, except) of a handler at node self
NkSendTo(r, dest, message) == [r EXCEPT !.sent = Append(@, <<dest, message>>)]
NkBroadcast(r, self, message, except) ==
    [r EXCEPT !.sent = @ \o [i \in 1..Len(SetToSeq(NkNodeIds \ {self, except})) |->
                                <<SetToSeq(NkNodeIds \ {self, except})[i], message>>]]

\* One element of a set whose iteration order or random draw decides: rnd
\* tells which end of the set is taken
NkPick(S, rnd) ==
    IF rnd THEN CHOOSE x \in S : \A y \in S : x[1] <= y[1]
    ELSE CHOOSE x \in S : \A y \in S : y[1] <= x[1]

\* entry(key).or_default().push(value) on a map of vectors
NkPush(map, key, value) ==
    MapInsert(map, key, Append(IF key \in DOMAIN map THEN map[key] ELSE <<>>, value))

\* Requests for all the ids, requested before or not
NkRequestsAgain(type, ids, requested, dest) ==
    [i \in 1..Len(SetToSeq(ids)) |-> <<dest, NkMsg(type, SetToSeq(ids)[i])>>]

\* The GetBlock / GetTransaction requests for the ids not requested yet
NkRequests(type, ids, requested, dest) ==
    [i \in 1..Len(SetToSeq(ids \ requested)) |->
        <<dest, NkMsg(type, SetToSeq(ids \ requested)[i])>>]

\* History: one call of add_new_block, the ledger and the block's seen_by
\* counter before and after it, and the messages the call itself sent
NkCall(r, self, block_id, received_from, after, seen_after, sent) ==
    [r EXCEPT !.calls = Append(@, [node |-> self, block |-> block_id,
                                   received_from |-> received_from,
                                   requested_transactions |-> r.state.requested_transactions,
                                   requested_blocks |-> r.state.requested_blocks,
                                   before |-> r.state.local_ledger, after |-> after,
                                   seen_before |-> r.B[block_id].seen_by,
                                   seen_after |-> seen_after, sent |-> sent])]

RECURSIVE Nk_add_new_block(_, _, _, _, _)
RECURSIVE NkDrainBlocks(_, _, _, _)

\* The loops over a drained vector of pending blocks (lines 62-64, 161-165)
NkDrainBlocks(r, self, blocks, rnd) ==
    IF blocks = <<>> \/ r.panicked THEN r
    ELSE NkDrainBlocks(Nk_add_new_block(r, self, blocks[1][2], blocks[1][1], rnd),
                       self, Tail(blocks), rnd)

\* NodeState::add_new_block; received_from is NoNode for None
Nk_add_new_block(r, self, block_id, received_from, rnd) ==
    LET block == r.B[block_id]
        st == r.state
        l == st.local_ledger
        unknown == {t \in block.transactions : t \notin l.known_transactions}
        missing_ancestors ==
            (IF block.parent # GENESIS_BLOCK /\ block.parent \notin l.blocks
             THEN <<block.parent>> ELSE <<>>)
            \o SetToSeq({u \in block.uncles : u \notin l.blocks})
        missing_ids == {missing_ancestors[i] : i \in 1..Len(missing_ancestors)}
    IN IF unknown # {}
       THEN IF received_from = NoNode THEN [r EXCEPT !.panicked = TRUE]
            ELSE LET requests == NkRequests("GetTransaction", unknown,
                                            st.requested_transactions, received_from)
                 IN [NkCall(r, self, block_id, received_from, l, block.seen_by, requests) EXCEPT
                       !.sent = @ \o requests,
                       !.state.requested_transactions = @ \cup unknown,
                       !.state.pending_blocks_transactions =
                           NkPush(@, NkPick({<<t>> : t \in unknown}, rnd)[1],
                                  <<received_from, block_id>>)]
       ELSE IF missing_ancestors # <<>>
       THEN IF received_from = NoNode THEN [r EXCEPT !.panicked = TRUE]
            ELSE LET requests == NkRequests("GetBlock", missing_ids,
                                            st.requested_blocks, received_from)
                 IN [NkCall(r, self, block_id, received_from, l, block.seen_by, requests) EXCEPT
                       !.sent = @ \o requests,
                       !.state.requested_blocks = @ \cup missing_ids,
                       !.state.pending_blocks_ancestors =
                           NkPush(@, missing_ancestors[1], <<received_from, block_id>>)]
       ELSE LET is_new_block == Ledger_is_new_block(l, block_id)
                l2 == Ledger_add_new_block(l, r.B, block_id,
                                           NkPick(Ledger_picks(l, r.B, block_id), rnd),
                                           CommitDelay)
                B2 == IF is_new_block THEN mark_as_seen(r.B, block_id) ELSE r.B
                r1 == IF is_new_block
                      THEN NkBroadcast(r, self, NkMsg("NotifyNewBlock", block_id),
                                       received_from)
                      ELSE r
                r2 == NkCall(r1, self, block_id, received_from, l2, B2[block_id].seen_by,
                             SubSeq(r1.sent, Len(r.sent) + 1, Len(r1.sent)))
                r3 == [r2 EXCEPT !.state.local_ledger = l2, !.B = B2,
                                 !.panicked = l2.panicked]
                pending == IF block_id \in DOMAIN st.pending_blocks_ancestors
                           THEN st.pending_blocks_ancestors[block_id] ELSE <<>>
            IN IF ~is_new_block \/ r3.panicked THEN r3
               ELSE NkDrainBlocks(
                        [r3 EXCEPT !.state.pending_blocks_ancestors =
                                       MapRemove(@, block_id)],
                        self, pending, rnd)

\* add_transaction that leaves the pending blocks of the transaction alone
Nk_add_transaction_only(r, self, txn_id, source, rnd) ==
    LET l == r.state.local_ledger
    IN IF ~Ledger_add_transaction_is_new(l, txn_id) THEN r
       ELSE NkBroadcast([r EXCEPT !.state.local_ledger = Ledger_add_transaction(l, txn_id)],
                        self, NkMsg("NotifyNewTransaction", txn_id), source)

\* NodeState::add_transaction
Nk_add_transaction(r, self, txn_id, source, rnd) ==
    LET l == r.state.local_ledger
        pending == IF txn_id \in DOMAIN r.state.pending_blocks_transactions
                   THEN r.state.pending_blocks_transactions[txn_id] ELSE <<>>
    IN IF ~Ledger_add_transaction_is_new(l, txn_id) THEN r
       ELSE NkBroadcast(
                NkDrainBlocks(
                    [r EXCEPT !.state.local_ledger = Ledger_add_transaction(l, txn_id),
                              !.state.pending_blocks_transactions = MapRemove(@, txn_id)],
                    self, pending, rnd),
                self, NkMsg("NotifyNewTransaction", txn_id), source)

\* NodeState::handle_message
Nk_handle_message(r, self, source, message, rnd) ==
    LET st == r.state
        l == st.local_ledger
        id == message.id
    IN CASE message.type = "NotifyNewBlock" ->
                IF id \notin l.blocks /\ id \notin st.requested_blocks
                THEN NkSendTo([r EXCEPT !.state.requested_blocks = @ \cup {id}],
                              source, NkMsg("GetBlock", id))
                ELSE r
         [] message.type = "GetBlock" ->
                IF id \notin l.blocks THEN [r EXCEPT !.panicked = TRUE]
                ELSE NkSendTo(r, source, NkMsg("SendBlock", id))
         [] message.type = "SendBlock" ->
                Nk_add_new_block([r EXCEPT !.state.requested_blocks = @ \ {id}],
                                 self, id, source, rnd)
         [] message.type = "GetTransaction" ->
                IF id \notin l.known_transactions THEN [r EXCEPT !.panicked = TRUE]
                ELSE NkSendTo(r, source, NkMsg("SendTransaction", id))
         [] message.type = "NotifyNewTransaction" ->
                IF id \notin l.known_transactions /\ id \notin st.requested_transactions
                THEN NkSendTo([r EXCEPT !.state.requested_transactions = @ \cup {id}],
                              source, NkMsg("GetTransaction", id))
                ELSE r
         [] message.type = "SendTransaction" ->
                Nk_add_transaction([r EXCEPT !.state.requested_transactions = @ \ {id}],
                                   self, id, source, rnd)

\* NakamotoNodeLedger::get_transactions_from_mempool: the transactions a call
\* can return (the iteration order of the mempool is arbitrary)
Nk_get_transactions_from_mempool(mempool, max_block_size) ==
    {T \in SUBSET mempool :
        Cardinality(T) = IF Cardinality(mempool) < max_block_size
                         THEN Cardinality(mempool) ELSE max_block_size}

\* NodeState::generate_block with NakamotoGlobalLedger::generate_block
Nk_generate_block_with(r, self, transactions, rnd, ghost) ==
    LET l == r.state.local_ledger
        parent_id == l.longest_chain[1]
        uncles == IF parent_id # GENESIS_BLOCK /\ ghost
                  THEN {u \in DOMAIN l.forks : u # parent_id /\ u \notin l.marked_as_uncle}
                  ELSE {}
        block == NakamotoBlock_new(self, parent_id, uncles, l.longest_chain[2] + 1,
                                   initialize_logic.global_ledger.num_nodes, transactions)
    IN Nk_add_new_block([r EXCEPT !.B = Append(@, block)], self, Len(r.B) + 1, NoNode, rnd)

\* generate_block with the use_ghost of the protocol configuration
Nk_generate_block(r, self, transactions, rnd) ==
    Nk_generate_block_with(r, self, transactions, rnd, use_ghost)

\* What a handler that ran at node self leaves behind
NkApply(r, self, net) ==
    /\ nk_nodes' = [nk_nodes EXCEPT ![self] = r.state]
    /\ nk_blocks' = r.B
    /\ nk_net' = [k \in NkLinks |->
                     IF k[1] = self
                     THEN net[k] \o [i \in 1..Len(SelectSeq(r.sent, LAMBDA m : m[1] = k[2])) |->
                                        SelectSeq(r.sent, LAMBDA m : m[1] = k[2])[i][2]]
                     ELSE net[k]]
    /\ nk_calls' = r.calls
    /\ nk_panicked' = r.panicked

\* Client::run: a client attached to node self issues a new transaction
NkClientIssue(nodes, num_txs) ==
    \E self \in nodes, rnd \in BOOLEAN :
        LET txn_id == Cardinality(UNION {nk_nodes[n].local_ledger.known_transactions :
                                            n \in NkNodeIds}) + 1
            r == Nk_add_transaction(NkHandling(nk_nodes[self], nk_blocks), self, txn_id,
                                    NoNode, rnd)
        IN /\ ~nk_panicked
           /\ txn_id <= num_txs
           /\ NkApply(r, self, nk_net)
           /\ UNCHANGED OtherThanNk

\* NakamotoNodeLogic::run of a mining node: should_create_block returned true
NkMine(max_blocks) ==
    \E self \in 0..(NkNumMiners - 1), rnd \in BOOLEAN :
      \E transactions \in Nk_get_transactions_from_mempool(
                              nk_nodes[self].local_ledger.mempool,
                              initialize_logic.max_block_size) :
        LET r == Nk_generate_block(NkHandling(nk_nodes[self], nk_blocks), self,
                                   transactions, rnd)
        IN /\ ~nk_panicked
           /\ Len(nk_blocks) < max_blocks
           /\ NkApply(r, self, nk_net)
           /\ UNCHANGED OtherThanNk

\* Nothing is in flight but the announcement of the latest block, still on the
\* links of its miner
NkOnlyAnnounced ==
    \A k \in NkLinks :
        \/ nk_net[k] = <<>>
        \/ /\ nk_blocks # <<>>
           /\ nk_net[k] = <<NkMsg("NotifyNewBlock", Len(nk_blocks))>>
           /\ k[1] = nk_blocks[Len(nk_blocks)].mined_by

\* NakamotoNodeLogic::run of one of NkGhostMiners mining nodes under a
\* configuration with use_ghost: should_create_block returned true; the
\* mempools are empty.  Blocks are mined while the network is quiet or while
\* the latest block is only announced, so that two blocks at most are
\* concurrent (the block interval is long compared to the link latency).
NkMineGhost ==
    \E self \in 0..(NkGhostMiners - 1), rnd \in BOOLEAN :
        LET r == Nk_generate_block_with(NkHandling(nk_nodes[self], nk_blocks), self, {},
                                        rnd, TRUE)
        IN /\ ~nk_panicked
           /\ Len(nk_blocks) < NkGhostBlocks
           /\ NkOnlyAnnounced
           /\ NkApply(r, self, nk_net)
           /\ UNCHANGED OtherThanNk

\* A message arrives: NakamotoNodeLogic::handle_message
NkDeliver ==
    \E k \in NkLinks, rnd \in BOOLEAN :
        LET self == k[2]
            r == Nk_handle_message(NkHandling(nk_nodes[self], nk_blocks), self, k[1],
                                   Head(nk_net[k]), rnd)
        IN /\ ~nk_panicked
           /\ nk_net[k] # <<>>
           /\ NkApply(r, self, [nk_net EXCEPT ![k] = Tail(@)])
           /\ UNCHANGED OtherThanNk

NextNk == NkClientIssue(NkNodeIds, NkNumTxs) \/ NkMine(NkMaxBlocks) \/ NkDeliver

\* NakamotoNodeLogic::handle_message called with a GetBlock or GetTransaction
\* for an item that the ledger of the node does not hold
NkHandleRequest ==
    \E self \in NkNodeIds, source \in NkNodeIds, type \in {"GetBlock", "GetTransaction"},
       id \in 1..NkMinerTxs :
        LET l == nk_nodes[self].local_ledger
            r == Nk_handle_message(NkHandling(nk_nodes[self], nk_blocks), self, source,
                                   NkMsg(type, id), TRUE)
        IN /\ ~nk_panicked
           /\ source # self
           /\ id \notin (IF type = "GetBlock" THEN l.blocks ELSE l.known_transactions)
           /\ NkApply(r, self, nk_net)
           /\ UNCHANGED OtherThanNk

\* The network of NextNkBlocks with nodes that get such requests
NextNkRequest ==
    \/ NkClientIssue(0..(NkNumMiners - 1), NkMinerTxs) \/ NkMine(NkMinedBlocks)
    \/ NkDeliver \/ NkHandleRequest

\* The network with GHOST: several miners, no transactions
NextNkGhost == NkMineGhost \/ NkDeliver

\* A network whose clients are attached to the mining node
NextNkBlocks == NkClientIssue(0..(NkNumMiners - 1), NkMinerTxs) \/ NkMine(NkMinedBlocks) \/ NkDeliver

\* C6: when a node's add_new_block gets a block that is already in its ledger,
\* the ledger (blocks, forks, chain head, mempool, applied transactions) stays
\* as it was, the block's seen_by counter is not incremented, and the call
\* broadcasts no NotifyNewBlock.
C6_SameBlockNoOp ==
    \A i \in 1..Len(nk_calls) :
        nk_calls[i].block \in nk_calls[i].before.blocks =>
            /\ \A field \in {"blocks", "forks", "longest_chain", "marked_as_uncle", "mempool",
                              "applied_transactions", "known_transactions"} :
                   nk_calls[i].after[field] = nk_calls[i].before[field]
            /\ nk_calls[i].after.notified = <<>>
            /\ nk_calls[i].seen_after = nk_calls[i].seen_before
            /\ \A j \in 1..Len(nk_calls[i].sent) :
                   nk_calls[i].sent[j][2].type # "NotifyNewBlock"

\* A node received, from another node, a block that was already in its ledger
C6_Witness ==
    \E i \in 1..Len(nk_calls) :
        /\ nk_calls[i].block \in nk_calls[i].before.blocks
        /\ nk_blocks[nk_calls[i].block].mined_by # nk_calls[i].node
        /\ nk_blocks[nk_calls[i].block].seen_by >= 2

\* The transactions and the ancestors of its block that the ledger lacked
\* when the call was made
NkUnknown(call) ==
    nk_blocks[call.block].transactions \ call.before.known_transactions
NkMissingAncestors(call) ==
    (({nk_blocks[call.block].parent} \ {GENESIS_BLOCK}) \cup nk_blocks[call.block].uncles)
        \ call.before.blocks
NkInserted(call) ==
    \/ call.block \in call.after.blocks \ call.before.blocks
    \/ \E j \in 1..Len(call.sent) : call.sent[j][2].type = "NotifyNewBlock"
\* The block of the last call of the handler is in a vector of pending blocks
NkParked(call) ==
    LET st == nk_nodes[call.node]
    IN \E map \in {st.pending_blocks_transactions, st.pending_blocks_ancestors} :
          \E key \in DOMAIN map : \E j \in 1..Len(map[key]) :
              map[key][j] = <<call.received_from, call.block>>

\* C25 as stated: a block received from a peer is inserted and announced
\* only if the node knows all its transactions, its parent (unless genesis)
\* and its uncles; otherwise the block is parked and every missing item is
\* requested from the sender.
C25_AsStated ==
    \A i \in 1..Len(nk_calls) :
        LET call == nk_calls[i]
            sent == {call.sent[j] : j \in 1..Len(call.sent)}
        IN call.received_from # NoNode =>
            IF NkUnknown(call) = {} /\ NkMissingAncestors(call) = {}
            THEN TRUE
            ELSE /\ ~NkInserted(call)
                 /\ i = Len(nk_calls) => NkParked(call)
                 /\ \A t \in NkUnknown(call) :
                        <<call.received_from, NkMsg("GetTransaction", t)>> \in sent
                 /\ \A a \in NkMissingAncestors(call) :
                        <<call.received_from, NkMsg("GetBlock", a)>> \in sent

\* C25, amended: an incomplete block is parked, and the node requests from the
\* sender the missing transactions it has not requested yet, or, when no
\* transaction is missing, the missing ancestors it has not requested yet.
C25_ParkedAndRequested ==
    \A i \in 1..Len(nk_calls) :
        LET call == nk_calls[i]
            sent == {call.sent[j] : j \in 1..Len(call.sent)}
        IN call.received_from # NoNode =>
            IF NkUnknown(call) = {} /\ NkMissingAncestors(call) = {}
            THEN TRUE
            ELSE /\ ~NkInserted(call)
                 /\ call.after = call.before
                 /\ i = Len(nk_calls) => NkParked(call)
                 /\ sent = IF NkUnknown(call) # {}
                           THEN {<<call.received_from, NkMsg("GetTransaction", t)>> :
                                    t \in NkUnknown(call) \ call.requested_transactions}
                           ELSE {<<call.received_from, NkMsg("GetBlock", a)>> :
                                    a \in NkMissingAncestors(call) \ call.requested_blocks}

\* A node parked a block whose transaction it had requested from another
\* peer before, and a node parked a block whose parent it lacked
C25_Witness ==
    \E i \in 1..Len(nk_calls) :
        /\ nk_calls[i].received_from # NoNode
        /\ i = Len(nk_calls)
        /\ NkParked(nk_calls[i])
        /\ \/ NkUnknown(nk_calls[i]) \cap nk_calls[i].requested_transactions # {}
           \/ NkMissingAncestors(nk_calls[i]) # {}

\* Node n holds block b in a vector of pending blocks
NkPending(n, b) ==
    \E map \in {nk_nodes[n].pending_blocks_transactions,
                 nk_nodes[n].pending_blocks_ancestors} :
        \E key \in DOMAIN map : \E j \in 1..Len(map[key]) : map[key][j][2] = b

\* C26: once all messages are delivered, no block is parked at any node: a
\* block parked because of a missing transaction, parent or uncle was
\* inserted into the ledger of the node when the missing items arrived.
C26_ParkedIsInserted ==
    (\A k \in NkLinks : nk_net[k] = <<>>) =>
        \A n \in NkNodeIds : \A b \in 1..NkMaxBlocks : ~NkPending(n, b)

\* The handler that ran last took a parked block out of its pending vector
\* and inserted it into the ledger: a call of add_new_block after the first
\* one of a handler is a call for a drained block
C26_Witness ==
    \E i \in 2..Len(nk_calls) :
        /\ nk_calls[i].received_from # NoNode
        /\ nk_calls[i].block \in nk_calls[i].after.blocks \ nk_calls[i].before.blocks
        /\ ~NkPending(nk_calls[i].node, nk_calls[i].block)

\* C39: every GetBlock and every GetTransaction in flight goes to a node that
\* holds the block or knows the transaction, and no handler has aborted.
C39_RequestsReachHolders ==
    /\ ~nk_panicked
    /\ \A k \in NkLinks : \A i \in 1..Len(nk_net[k]) :
          LET message == nk_net[k][i]
              l == nk_nodes[k[2]].local_ledger
          IN /\ message.type = "GetBlock" => message.id \in l.blocks
             /\ message.type = "GetTransaction" => message.id \in l.known_transactions

\* A node that parked a block asked the sender of the block for what it
\* misses, and the request is in flight
C39_Witness ==
    \E k \in NkLinks :
        /\ nk_net[k] # <<>>
        /\ Head(nk_net[k]).type \in {"GetBlock", "GetTransaction"}
        /\ \E i \in 1..Len(nk_calls) :
              /\ nk_calls[i].node = k[1]
              /\ nk_calls[i].received_from = k[2]
              /\ <<k[2], Head(nk_net[k])>> \in {nk_calls[i].sent[j] : j \in 1..Len(nk_calls[i].sent)}
              /\ nk_calls[i].after = nk_calls[i].before

NkChainUncles(B, id) == UNION {B[b].uncles : b \in Chain([i \in 1..Len(B) |-> B[i]], id)}

C14_AsStated ==
    \A i \in 1..Len(nk_blocks) : Cardinality(nk_blocks[i].transactions) <= MaxBlockSize

\* C15 as stated: a block's full_propagation_time is set exactly when its
\* seen_by counter reaches the number of correct nodes, and stays set.
C15_AsStated ==
    /\ [](\A i \in 1..Len(nk_blocks) :
             nk_blocks[i].full_propagation <=> nk_blocks[i].seen_by >= num_correct_nodes)
    /\ [][\A i \in 1..Len(nk_blocks) :
             nk_blocks[i].full_propagation => nk_blocks'[i].full_propagation]_vars

(***************************************************************************)
(* logic/gossip: node 0 creates one block; a node that hears of it asks    *)
(* for it in a spawned task that retries peer after peer.                  *)
(***************************************************************************)
GsNumNodes == 3         \* nodes of the gossip network
GsMaxRetries == 2       \* times the retry timer of one request task elapses

GsNodeIds == 0..(GsNumNodes - 1)

\* The nodes reached from S in at most k hops over the links E
RECURSIVE GsReach(_, _, _)
GsReach(E, S, k) ==
    IF k = 0 THEN S
    ELSE GsReach(E, S \cup {n \in GsNodeIds : \E m \in S : {m, n} \in E}, k - 1)

\* The connected networks: every node is reached from node 0
GsNetworks ==
    {E \in SUBSET {e \in SUBSET GsNodeIds : Cardinality(e) = 2} :
        GsReach(E, {0}, GsNumNodes) = GsNodeIds}

\* GossipNodeLogic::new; task is the state of the task request_new_block spawns
GossipNodeLogic_new ==
    [known |-> FALSE, requested |-> FALSE, task |-> "none", peers |-> <<>>, pos |-> 0,
     retries |-> 0]

\* Node::broadcast(message, except): one message to every peer but except
GsBroadcast(net, self, message, except) ==
    [k \in DOMAIN net |->
        IF k[1] = self /\ k[2] \in gs_peers[self] \ {except}
        THEN Append(net[k], message) ELSE net[k]]

\* build_scene: the links of the network are created
GsConnect ==
    \E E \in GsNetworks :
        /\ gs_peers = [n \in GsNodeIds |-> {}]
        /\ gs_peers' = [n \in GsNodeIds |-> {m \in GsNodeIds : {n, m} \in E}]
        /\ UNCHANGED <<gs_nodes, gs_net, gs_seen_by>>
        /\ UNCHANGED OtherThanGossip

\* GossipNodeLogic::run of node 0: generate_block and add_block(block, None)
GsGenerate ==
    /\ gs_peers[0] # {}
    /\ ~gs_nodes[0].known
    /\ gs_seen_by = 0
    /\ gs_nodes' = [gs_nodes EXCEPT ![0].known = TRUE]
    /\ gs_seen_by' = gs_seen_by + 1
    /\ gs_net' = GsBroadcast(gs_net, 0, "NotifyNewBlock", NoNode)
    /\ UNCHANGED gs_peers
    /\ UNCHANGED OtherThanGossip

\* request_new_block, lines 84-93: the source first, then the other peers
request_peers(self, source) == <<source>> \o SetToSeq(gs_peers[self] \ {source})

\* A node that takes no notification as news
GsNeverNew(nd) == FALSE

\* handle_message, lines 153-154: is_new
Gs_is_new(nd) == ~nd.known /\ ~nd.requested

\* GossipNodeLogic::handle_message with add_block and request_new_block
GsDeliver ==
    \E k \in DOMAIN gs_net :
        LET source == k[1]
            self == k[2]
            nd == gs_nodes[self]
            net == [gs_net EXCEPT ![k] = Tail(@)]
        IN /\ gs_net[k] # <<>>
           /\ CASE Head(gs_net[k]) = "NotifyNewBlock" ->
                     /\ gs_nodes' = IF ~Gs_is_new(nd) THEN gs_nodes
                                    ELSE [gs_nodes EXCEPT
                                            ![self].requested = TRUE,
                                            ![self].task = "spawned",
                                            ![self].peers = request_peers(self, source)]
                     /\ gs_net' = net
                     /\ UNCHANGED gs_seen_by
                [] Head(gs_net[k]) = "GetBlock" ->
                     /\ gs_net' = IF nd.known
                                  THEN [net EXCEPT ![<<self, source>>] = Append(@, "SendBlock")]
                                  ELSE net
                     /\ UNCHANGED <<gs_nodes, gs_seen_by>>
                [] Head(gs_net[k]) = "SendBlock" ->
                     IF nd.requested
                     THEN /\ gs_nodes' = [gs_nodes EXCEPT ![self].requested = FALSE,
                                                          ![self].known = TRUE]
                          /\ gs_seen_by' = gs_seen_by + 1
                          /\ gs_net' = GsBroadcast(net, self, "NotifyNewBlock", source)
                     ELSE /\ gs_net' = net
                          /\ UNCHANGED <<gs_nodes, gs_seen_by>>
           /\ UNCHANGED gs_peers
           /\ UNCHANGED OtherThanGossip

\* request_new_block, lines 95-117: the spawned task starts, or wakes up from
\* block_cond.wait_with_timeout because the block arrived or the delay elapsed
GsRequestTask ==
    \E self \in GsNodeIds :
        LET nd == gs_nodes[self]
            pos == IF nd.pos >= Len(nd.peers) THEN 0 ELSE nd.pos
        IN /\ nd.task \in {"spawned", "waiting"}
           /\ IF nd.known
              THEN /\ gs_nodes' = [gs_nodes EXCEPT ![self].task = "done"]
                   /\ UNCHANGED gs_net
              ELSE /\ nd.task = "waiting" => nd.retries < GsMaxRetries
                   /\ gs_nodes' = [gs_nodes EXCEPT
                                     ![self].task = "waiting",
                                     ![self].pos = pos + 1,
                                     ![self].retries = IF nd.task = "waiting"
                                                       THEN @ + 1 ELSE @]
                   /\ gs_net' = [gs_net EXCEPT ![<<self, nd.peers[pos + 1]>>] =
                                                  Append(@, "GetBlock")]
           /\ UNCHANGED <<gs_peers, gs_seen_by>>
           /\ UNCHANGED OtherThanGossip

NextGossip == GsConnect \/ GsGenerate \/ GsDeliver \/ GsRequestTask

\* The node that Failures marks as faulty in the network with a faulty node
GsFaultyNode == 1

\* create_node, lines 128-136: run is spawned for a node that is not faulty;
\* the callback that handles the node's messages is installed for every node
GsRun == \E self \in GsNodeIds \ {GsFaultyNode} : self = 0 /\ GsGenerate

\* The gossip network in which node GsFaultyNode is faulty
NextGossipFaulty == GsConnect \/ GsRun \/ GsDeliver \/ GsRequestTask

\* asim runs node 0, delivers every message and runs every spawned task
FairGossip == WF_vars(GsConnect) /\ WF_vars(GsGenerate) /\ WF_vars(GsDeliver) /\ WF_vars(GsRequestTask)

\* C33 as stated: the faulty node never sends a message (no notification, no
\* request, no block) and is never counted by the seen-by counter of the
\* block.
C33_AsStated ==
    [][/\ \A k \in DOMAIN gs_net :
             k[1] = GsFaultyNode => Len(gs_net'[k]) <= Len(gs_net[k])
       /\ gs_nodes'[GsFaultyNode].known # gs_nodes[GsFaultyNode].known
             => gs_seen_by' = gs_seen_by]_vars

\* C7: on a connected network the block that node 0 generates is eventually
\* recorded as known by every node.
C7_EveryNodeKnows == <>(\A n \in GsNodeIds : gs_nodes[n].known)

\* Every node knows the block, one of them a node with no link to node 0 that
\* asked a peer again after its retry delay elapsed
C7_Witness ==
    /\ \A n \in GsNodeIds : gs_nodes[n].known
    /\ \E n \in GsNodeIds \ {0} : 0 \notin gs_peers[n] /\ gs_nodes[n].retries > 0
    /\ gs_seen_by = GsNumNodes

(***************************************************************************)
(* logic/snowball: every node runs the sampling loop of                    *)
(* SnowballNodeLogic::run on a fully connected network.                    *)
(***************************************************************************)
SbNumNodes == 3             \* num_nodes
SbSampleSize == 2           \* the largest sample_size, k
SbAcceptanceThreshold == 1  \* acceptance_threshold, beta
SbTimeoutBlocks == 1        \* warmup + runtime of a timeout in blocks

SbNodeIds == 0..(SbNumNodes - 1)
\* enum Color without Empty, which SnowballNodeLogic::new never assigns
SbColors == {"Red", "Blue"}

\* SnowballNodeLogic::new with the locals of run; phase is the position of the
\* run task: "new" before it first runs, "recv" collecting the responses,
\* "returned" after the return
SnowballNodeLogic_new(color) ==
    [ current_candidate |-> color, decided |-> FALSE, phase |-> "new",
      responses |-> [c \in SbColors |-> 0],
      candidate_preference |-> [c \in SbColors |-> 0],
      last_chosen_candidate |-> color, acceptance_count |-> 0 ]

\* SnowballGlobalLogic::instantiate and new_node_logic: the sizes that
\* ceil(num_nodes * sample_size_weighted) and
\* ceil(sample_size * query_threshold_weighted) give, and a random color for
\* each node
SnowballGlobalLogic_instantiate(sample_sizes) ==
    \E sample_size \in sample_sizes, colors \in [SbNodeIds -> SbColors] :
      \E query_threshold \in 0..sample_size :
        /\ sb_sample_size = 0
        /\ sample_size <= SbNumNodes
        /\ sb_sample_size' = sample_size
        /\ sb_query_threshold' = query_threshold
        /\ sb_nodes' = [n \in SbNodeIds |-> SnowballNodeLogic_new(colors[n])]
        /\ UNCHANGED <<sb_net, sb_permits, sb_timeout>>
        /\ UNCHANGED OtherThanSb

SbInstantiate == SnowballGlobalLogic_instantiate(1..SbSampleSize)

\* NodeState::start_next_sample: a Query to each node of sampled_nodes, which
\* choose_multiple draws from the peers
start_next_sample(net, self, candidate, sampled_nodes) ==
    [k \in DOMAIN net |->
        IF k[1] = self /\ k[2] \in sampled_nodes
        THEN Append(net[k], [type |-> "Query", color |-> candidate])
        ELSE net[k]]

\* run, lines 165-190: the task starts and enters the loop for the first
\* time; current_candidate is Red or Blue, never Empty
SbStart(self) ==
      \E sampled_nodes \in {S \in SUBSET (SbNodeIds \ {self}) :
                                Cardinality(S) = sb_sample_size} :
        /\ sb_sample_size # 0
        /\ sb_nodes[self].phase = "new"
        /\ sb_nodes' = [sb_nodes EXCEPT ![self].phase = "recv"]
        /\ sb_net' = start_next_sample(sb_net, self, sb_nodes[self].current_candidate,
                                       sampled_nodes)
        /\ UNCHANGED <<sb_sample_size, sb_query_threshold, sb_permits, sb_timeout>>
        /\ UNCHANGED OtherThanSb

\* NodeState::handle_message: on_query and handle_query_response
SbDeliver(k) ==
        LET source == k[1]
            self == k[2]
            message == Head(sb_net[k])
            net == [sb_net EXCEPT ![k] = Tail(@)]
        IN /\ sb_net[k] # <<>>
           /\ IF message.type = "Query"
              THEN LET color == IF sb_nodes[self].current_candidate = "Empty"
                                 THEN message.color
                                 ELSE sb_nodes[self].current_candidate
                   IN /\ sb_nodes' = [sb_nodes EXCEPT ![self].current_candidate = color]
                      /\ sb_net' = [net EXCEPT ![<<self, source>>] =
                            Append(@, [type |-> "QueryResponse", color |-> color])]
              ELSE /\ sb_net' = net
                   /\ sb_nodes' = [sb_nodes EXCEPT ![self].responses[message.color] = @ + 1]
           /\ UNCHANGED <<sb_sample_size, sb_query_threshold, sb_permits, sb_timeout>>
           /\ UNCHANGED OtherThanSb

\* handle_sample_result, lines 125-151: one color of the frequency map
SbCount(st, candidate, f, query_threshold) ==
    IF f > query_threshold
    THEN LET d == [st.candidate_preference EXCEPT ![candidate] = @ + 1]
             cnt == IF candidate = st.last_chosen_candidate
                    THEN st.acceptance_count + 1 ELSE 1
         IN [st EXCEPT
               !.majority = TRUE,
               !.candidate_preference = d,
               !.current_candidate = IF d[@] < d[candidate] THEN candidate ELSE @,
               !.acceptance_count = cnt,
               !.last_chosen_candidate = candidate,
               !.decided = @ \/ cnt >= SbAcceptanceThreshold,
               !.permits = IF cnt >= SbAcceptanceThreshold THEN @ + 1 ELSE @]
    ELSE st

\* NodeState::handle_sample_result; order is the iteration order of frequency
handle_sample_result(node, order, query_threshold) ==
    LET st0 == [current_candidate |-> node.current_candidate, decided |-> node.decided,
                candidate_preference |-> node.candidate_preference,
                last_chosen_candidate |-> node.last_chosen_candidate,
                acceptance_count |-> node.acceptance_count,
                majority |-> FALSE, permits |-> 0]
        st1 == IF node.responses[order[1]] > 0
               THEN SbCount(st0, order[1], node.responses[order[1]], query_threshold)
               ELSE st0
        st2 == IF node.responses[order[2]] > 0
               THEN SbCount(st1, order[2], node.responses[order[2]], query_threshold)
               ELSE st1
    IN [st2 EXCEPT !.acceptance_count = IF st2.majority THEN @ ELSE 0]

\* run, lines 192-214 and 171-190: sample_size responses were received; the
\* loop handles them and, with no await in between, returns if the node has
\* decided or starts the next sample
SbSampleResult(self) ==
    \E order \in {<<"Red", "Blue">>, <<"Blue", "Red">>} :
      \E sampled_nodes \in {S \in SUBSET (SbNodeIds \ {self}) :
                                Cardinality(S) = sb_sample_size} :
        LET node == sb_nodes[self]
            st == handle_sample_result(node, order, sb_query_threshold)
        IN /\ node.phase = "recv"
           /\ node.responses["Red"] + node.responses["Blue"] >= sb_sample_size
           /\ sb_nodes' = [sb_nodes EXCEPT ![self] =
                  [ current_candidate |-> st.current_candidate, decided |-> st.decided,
                    phase |-> IF st.decided THEN "returned" ELSE "recv",
                    responses |-> [c \in SbColors |-> 0],
                    candidate_preference |-> st.candidate_preference,
                    last_chosen_candidate |-> st.last_chosen_candidate,
                    acceptance_count |-> st.acceptance_count ]]
           /\ sb_net' = IF st.decided THEN sb_net
                        ELSE start_next_sample(sb_net, self, st.current_candidate,
                                               sampled_nodes)
           /\ sb_permits' = sb_permits + st.permits
           /\ UNCHANGED <<sb_sample_size, sb_query_threshold, sb_timeout>>
           /\ UNCHANGED OtherThanSb

\* run_until: process_commands, Command::SetTimeout with
\* TimeoutConfig::Blocks, lines 862-875, before build_scene starts the nodes:
\* the task is spawned and runs up to the first await of
\* wait_for_blocks(warmup); the assert_eq!(blocks, 1) of snowball/mod.rs:115
\* unwinds it
SbSetTimeout ==
    \E warmup \in 0..SbTimeoutBlocks, runtime \in 0..SbTimeoutBlocks :
        /\ warmup + runtime = SbTimeoutBlocks
        /\ sb_sample_size # 0
        /\ \A n \in SbNodeIds : sb_nodes[n].phase = "new"
        /\ sb_timeout.pc = "unset"
        /\ sb_timeout' = [pc |-> IF warmup = 1 THEN "warmup" ELSE "panicked",
                          warmup |-> warmup, runtime |-> runtime]
        /\ UNCHANGED <<sb_sample_size, sb_query_threshold, sb_nodes, sb_net, sb_permits>>
        /\ UNCHANGED OtherThanSb

\* The task of the timeout when acquire_many(num_nodes) of wait_for_blocks
\* returns; the permits are forgotten.  After the warm-up the task calls
\* wait_for_blocks(warmup + runtime); after the run time it sends
\* TimeoutElapsed
SbTimeoutTask ==
    /\ sb_timeout.pc \in {"warmup", "runtime"}
    /\ sb_permits >= SbNumNodes
    /\ sb_permits' = sb_permits - SbNumNodes
    /\ sb_timeout' = [sb_timeout EXCEPT !.pc =
          IF sb_timeout.pc = "runtime" THEN "elapsed"
          ELSE IF sb_timeout.warmup + sb_timeout.runtime = 1 THEN "runtime"
          ELSE "panicked"]
    /\ UNCHANGED <<sb_sample_size, sb_query_threshold, sb_nodes, sb_net>>
    /\ UNCHANGED OtherThanSb

NextSb ==
    \/ SbInstantiate
    \/ \E self \in SbNodeIds : SbStart(self) \/ SbSampleResult(self)
    \/ \E k \in DOMAIN sb_net : SbDeliver(k)

\* asim runs every node's task and delivers the messages of every link
FairSb ==
    /\ WF_vars(SbInstantiate)
    /\ \A self \in SbNodeIds : WF_vars(SbStart(self) \/ SbSampleResult(self))
    /\ \A k \in {<<a, b>> \in SbNodeIds \X SbNodeIds : a # b} : WF_vars(SbDeliver(k))

\* Snowball run until a timeout of a number of blocks
NextSbTimeout ==
    \/ SnowballGlobalLogic_instantiate({1})
    \/ \E self \in SbNodeIds : SbStart(self) \/ SbSampleResult(self)
    \/ \E k \in DOMAIN sb_net : SbDeliver(k)
    \/ SbSetTimeout \/ SbTimeoutTask

FairSbTimeout ==
    /\ \A self \in SbNodeIds : WF_vars(SbStart(self) \/ SbSampleResult(self))
    /\ \A k \in {<<a, b>> \in SbNodeIds \X SbNodeIds : a # b} : WF_vars(SbDeliver(k))
    /\ WF_vars(SbTimeoutTask)

\* C35 as stated: the permits added to the decision semaphore are as many as
\* the nodes that have decided, so that the num_nodes permits that
\* wait_for_blocks(1) acquires are there only once all nodes have decided.
C35_AsStated ==
    /\ sb_permits = Cardinality({n \in SbNodeIds : sb_nodes[n].decided})
    /\ sb_permits >= SbNumNodes => \A n \in SbNodeIds : sb_nodes[n].decided

\* C8 as stated: no two nodes that have decided hold different colors.
C8_AsStated ==
    \A a \in SbNodeIds, b \in SbNodeIds :
        (sb_sample_size # 0 /\ sb_nodes[a].decided /\ sb_nodes[b].decided)
            => sb_nodes[a].current_candidate = sb_nodes[b].current_candidate

\* C9 as stated: every node eventually decides and its sampling loop returns.
C9_AsStated ==
    \A n \in SbNodeIds :
        <>(sb_sample_size # 0 /\ sb_nodes[n].decided /\ sb_nodes[n].phase = "returned")

(***************************************************************************)
(* simulation.rs: the state of the Simulation and the threads that change  *)
(* it: the thread that owns the Simulation, the threads that call stop(),  *)
(* set the rate limit or issue operation requests, the worker thread       *)
(* (SimulationInner::run) and the event handler thread.  Every action is   *)
(* one critical section of a mutex, or one pass of a loop of the worker.   *)
(***************************************************************************)
SimMaxRuntime == 1      \* the largest timeout, in steps of the timer
SimMaxTime == 2         \* the virtual time of the last event of the timer
SimNumCallers == 2      \* threads that issue operation requests
SimMaxOps == 2          \* operation requests issued in one run
SimMaxRate == 1         \* the largest rate limit set

\* enum State, in the order of its declaration
SimRank(state) ==
    CASE state = "SettingUp" -> 0
      [] state = "Starting" -> 1
      [] state = "Running" -> 2
      [] state = "Stopping" -> 3
      [] state = "Stopped" -> 4
      [] state = "Destroyed" -> 5

\* Simulation::issue_command: the command is pushed; the notify_all of both
\* condition variables is in the guards of the actions that wait
issue_command(command_queue, command) == Append(command_queue, command)

\* Simulation::run_until, its first line: issue_command(SetTimeout(timeout));
\* the thread goes on with start() and wait_for_stop()
SimSetTimeout ==
    \E runtime \in 0..SimMaxRuntime :
        /\ sim_user = "idle"
        /\ sim_timeout.status = "unset"
        /\ sim_commands' = issue_command(sim_commands, [type |-> "SetTimeout"])
        /\ sim_timeout' = [status |-> "queued", left |-> runtime]
        /\ sim_user' = "run_until"
        /\ UNCHANGED <<sim_state, sim_worker, sim_handler, sim_events, sim_rate_limit,
                       sim_time, sim_next_op_id, sim_pending_operations, sim_callers>>
        /\ UNCHANGED OtherThanSim

\* Simulation::start up to its wait, called directly or by run_until; a
\* failed assert_eq! unwinds the thread
SimStart ==
    /\ sim_user \in {"idle", "run_until"}
    /\ IF sim_state = "SettingUp"
       THEN /\ sim_state' = "Starting"
            /\ sim_user' = IF sim_user = "idle" THEN "start" ELSE "run_until_start"
       ELSE sim_user' = "panicked" /\ UNCHANGED sim_state
    /\ UNCHANGED <<sim_worker, sim_handler, sim_commands, sim_events, sim_timeout,
                   sim_rate_limit, sim_time, sim_next_op_id, sim_pending_operations,
                   sim_callers>>
    /\ UNCHANGED OtherThanSim

\* Simulation::wait_for_stop up to its wait
SimWaitForStop ==
    /\ sim_user = "idle"
    /\ sim_user' = "wait_for_stop"
    /\ UNCHANGED <<sim_state, sim_worker, sim_handler, sim_commands, sim_events,
                   sim_timeout, sim_rate_limit, sim_time, sim_next_op_id,
                   sim_pending_operations, sim_callers>>
    /\ UNCHANGED OtherThanSim

\* The waits of start and wait_for_stop end; in run_until the end of start
\* is the begin of wait_for_stop
SimReturn ==
    /\ \/ sim_user \in {"start", "run_until_start"} /\ sim_state # "Starting"
       \/ sim_user \in {"wait_for_stop", "run_until_wait"} /\ sim_state = "Stopped"
    /\ sim_user' = IF sim_user = "run_until_start" THEN "run_until_wait" ELSE "idle"
    /\ UNCHANGED <<sim_state, sim_worker, sim_handler, sim_commands, sim_events,
                   sim_timeout, sim_rate_limit, sim_time, sim_next_op_id,
                   sim_pending_operations, sim_callers>>
    /\ UNCHANGED OtherThanSim

\* Whether another thread can still call a method of the Simulation: Drop
\* has the only reference
SimAlive == sim_user \notin {"drop", "join"}

\* Simulation::stop, called by any thread that holds a reference
SimStop ==
    /\ SimAlive
    /\ sim_state' = "Stopping"
    /\ UNCHANGED <<sim_user, sim_worker, sim_handler, sim_commands, sim_events,
                   sim_timeout, sim_rate_limit, sim_time, sim_next_op_id,
                   sim_pending_operations, sim_callers>>
    /\ UNCHANGED OtherThanSim

\* Simulation::set_rate_limit and remove_rate_limit; the Option is a set
\* with at most one element
SimSetRateLimit ==
    \E rate_limit \in {{}} \cup {{r} : r \in 0..SimMaxRate} :
        /\ SimAlive
        /\ rate_limit # sim_rate_limit
        /\ sim_rate_limit' = rate_limit
        /\ UNCHANGED <<sim_state, sim_user, sim_worker, sim_handler, sim_commands,
                       sim_events, sim_timeout, sim_time, sim_next_op_id,
                       sim_pending_operations, sim_callers>>
        /\ UNCHANGED OtherThanSim

\* Simulation::issue_operation up to pending_op.wait(); NodeLocation stands
\* for the requests that look up a node of the scene
SimIssueOperation(caller) ==
    \E request \in {"CurrentTime", "NodeLocation"} :
        LET op_id == sim_next_op_id
        IN /\ SimAlive
           /\ sim_callers[caller].pc = "idle"
           /\ op_id <= SimMaxOps
           /\ sim_next_op_id' = op_id + 1
           /\ sim_pending_operations' = sim_pending_operations \cup {<<op_id, caller>>}
           /\ sim_commands' = issue_command(sim_commands,
                  [type |-> "OpRequest", op_id |-> op_id, request |-> request])
           /\ sim_callers' = [sim_callers EXCEPT ![caller] =
                  [pc |-> "wait", op_id |-> op_id, result |-> {}, returned |-> {}]]
           /\ UNCHANGED <<sim_state, sim_user, sim_worker, sim_handler, sim_events,
                          sim_timeout, sim_rate_limit, sim_time>>
           /\ UNCHANGED OtherThanSim

\* PendingOp::wait returns the result once it is set
SimOperationReturn(caller) ==
    /\ sim_callers[caller].pc = "wait"
    /\ sim_callers[caller].result # {}
    /\ sim_callers' = [sim_callers EXCEPT ![caller].pc = "idle",
                                         ![caller].result = {},
                                         ![caller].returned = sim_callers[caller].result]
    /\ UNCHANGED <<sim_state, sim_user, sim_worker, sim_handler, sim_commands,
                   sim_events, sim_timeout, sim_rate_limit, sim_time, sim_next_op_id,
                   sim_pending_operations>>
    /\ UNCHANGED OtherThanSim

\* Drop for Simulation: self.stop(); no other thread holds a reference
SimDropStop ==
    /\ sim_user \in {"idle", "panicked"}
    /\ \A caller \in 1..SimNumCallers : sim_callers[caller].pc = "idle"
    /\ sim_state' = "Stopping"
    /\ sim_user' = "drop"
    /\ UNCHANGED <<sim_worker, sim_handler, sim_commands, sim_events, sim_timeout,
                   sim_rate_limit, sim_time, sim_next_op_id, sim_pending_operations,
                   sim_callers>>
    /\ UNCHANGED OtherThanSim

\* Drop for Simulation: the state becomes Destroyed, issue_command(Destroy);
\* the thread then waits for the two other threads to end
SimDropDestroy ==
    /\ sim_user = "drop"
    /\ sim_state' = "Destroyed"
    /\ sim_commands' = issue_command(sim_commands, [type |-> "Destroy"])
    /\ sim_user' = "join"
    /\ UNCHANGED <<sim_worker, sim_handler, sim_events, sim_timeout, sim_rate_limit,
                   sim_time, sim_next_op_id, sim_pending_operations, sim_callers>>
    /\ UNCHANGED OtherThanSim

\* SimulationInner::process_commands on the commands taken from the queue,
\* lines 832-980: r holds the timeout task, the events sent and whether an
\* expect failed; built is whether build_scene has run, stopped whether
\* asim was stopped
RECURSIVE process_commands(_, _, _, _)
process_commands(cmds, r, built, stopped) ==
    IF cmds = <<>> \/ r.panicked THEN r
    ELSE LET cmd == Head(cmds)
             next ==
               CASE cmd.type = "SetTimeout" ->
                      [r EXCEPT !.timeout.status = IF stopped THEN "dead" ELSE "armed"]
                 [] cmd.type = "OpRequest" ->
                      IF cmd.request = "NodeLocation" /\ ~built
                      THEN [r EXCEPT !.panicked = TRUE]
                      ELSE [r EXCEPT !.events = Append(@,
                              [type |-> "OpResult", op_id |-> cmd.op_id,
                               result |-> [op_id |-> cmd.op_id, request |-> cmd.request]])]
                 [] cmd.type = "Destroy" -> r
         IN process_commands(Tail(cmds), next, built, stopped)

\* The timeout task when asim runs the tasks: it sends TimeoutElapsed once
\* its time has passed; advance is whether the timer moves on (update) or
\* not (update_stopped)
SimRunTasks(r, advance) ==
    IF r.timeout.status # "armed" \/ r.panicked THEN r
    ELSE IF r.timeout.left = 0
         THEN [r EXCEPT !.timeout.status = "elapsed",
                        !.events = Append(@, [type |-> "TimeoutElapsed"])]
    ELSE IF advance THEN [r EXCEPT !.timeout.left = @ - 1]
    ELSE r

\* process_commands followed by update or update_stopped
SimPass(built, stopped, advance) ==
    SimRunTasks(process_commands(sim_commands,
                                 [timeout |-> sim_timeout, events |-> <<>>,
                                  panicked |-> FALSE], built, stopped), advance)

\* run, lines 985-1006: the wait for SettingUp to end, then the set-up with
\* process_commands, build_scene and update_stopped
SimWorkerSetUp ==
    LET r == SimPass(FALSE, FALSE, FALSE)
    IN /\ sim_worker = "wait"
       /\ sim_state # "SettingUp"
       /\ sim_worker' = IF r.panicked THEN "panicked" ELSE "setup"
       /\ sim_commands' = <<>>
       /\ sim_timeout' = r.timeout
       /\ sim_events' = sim_events \o r.events
       /\ UNCHANGED <<sim_state, sim_user, sim_handler, sim_rate_limit, sim_time,
                      sim_next_op_id, sim_pending_operations, sim_callers>>
       /\ UNCHANGED OtherThanSim

\* run, lines 985-1001, for a protocol that is not compatible with the
\* connectivity: after process_commands the panic! of build_scene, lines
\* 616-621, unwinds the worker thread; the state is left as it is
SimWorkerBuildScenePanics ==
    LET r == process_commands(sim_commands,
                              [timeout |-> sim_timeout, events |-> <<>>,
                               panicked |-> FALSE], FALSE, FALSE)
    IN /\ sim_worker = "wait"
       /\ sim_state # "SettingUp"
       /\ sim_worker' = "panicked"
       /\ sim_commands' = <<>>
       /\ sim_timeout' = r.timeout
       /\ sim_events' = sim_events \o r.events
       /\ UNCHANGED <<sim_state, sim_user, sim_handler, sim_rate_limit, sim_time,
                      sim_next_op_id, sim_pending_operations, sim_callers>>
       /\ UNCHANGED OtherThanSim

\* run, lines 1016-1019: the state becomes Running
SimWorkerRunning ==
    /\ sim_worker = "setup"
    /\ sim_state' = "Running"
    /\ sim_worker' = "loop"
    /\ UNCHANGED <<sim_user, sim_handler, sim_commands, sim_events, sim_timeout,
                   sim_rate_limit, sim_time, sim_next_op_id, sim_pending_operations,
                   sim_callers>>
    /\ UNCHANGED OtherThanSim

\* run, lines 1025-1076: one pass of the main loop, which ends when the
\* state is no longer Running: process_commands, update, and with a rate
\* limit of 0 the first pass of the pause (lines 1046-1054) up to its wait
SimWorkerLoop ==
    LET r == SimPass(TRUE, FALSE, TRUE)
    IN /\ sim_worker = "loop"
       /\ IF sim_state # "Running"
          THEN /\ sim_worker' = "cleanup"
               /\ UNCHANGED <<sim_commands, sim_events, sim_timeout, sim_time>>
          ELSE /\ sim_commands' = <<>>
               /\ sim_timeout' = r.timeout
               /\ sim_events' = sim_events \o r.events
               /\ sim_time' = IF sim_time < SimMaxTime THEN sim_time + 1 ELSE sim_time
               /\ sim_worker' = IF sim_rate_limit = {0} THEN "paused" ELSE "loop"
       /\ UNCHANGED <<sim_state, sim_user, sim_handler, sim_rate_limit,
                      sim_next_op_id, sim_pending_operations, sim_callers>>
       /\ UNCHANGED OtherThanSim

\* run, lines 1046-1054: rate_limit_cond was notified by set_rate_limit,
\* remove_rate_limit or issue_command; with a rate limit of 0 the pause goes
\* on with process_commands and update_stopped, otherwise the loop goes on
SimWorkerPaused ==
    LET r == SimPass(TRUE, FALSE, FALSE)
    IN /\ sim_worker = "paused"
       /\ sim_commands # <<>> \/ sim_rate_limit # {0}
       /\ IF sim_rate_limit = {0}
          THEN /\ sim_commands' = <<>>
               /\ sim_timeout' = r.timeout
               /\ sim_events' = sim_events \o r.events
               /\ UNCHANGED sim_worker
          ELSE /\ sim_worker' = "loop"
               /\ UNCHANGED <<sim_commands, sim_events, sim_timeout>>
       /\ UNCHANGED <<sim_state, sim_user, sim_handler, sim_rate_limit, sim_time,
                      sim_next_op_id, sim_pending_operations, sim_callers>>
       /\ UNCHANGED OtherThanSim

\* run, lines 1078-1098: asim stops, SimulationStopped is sent and the state
\* becomes Stopped unless it is Destroyed
SimWorkerStopped ==
    /\ sim_worker = "cleanup"
    /\ sim_events' = Append(sim_events, [type |-> "SimulationStopped"])
    /\ sim_state' = IF sim_state # "Destroyed" THEN "Stopped" ELSE sim_state
    /\ sim_timeout' = IF sim_timeout.status = "armed"
                      THEN [sim_timeout EXCEPT !.status = "dead"] ELSE sim_timeout
    /\ sim_worker' = "commands"
    /\ UNCHANGED <<sim_user, sim_handler, sim_commands, sim_rate_limit, sim_time,
                   sim_next_op_id, sim_pending_operations, sim_callers>>
    /\ UNCHANGED OtherThanSim

\* run, lines 1100-1115: commands are processed until the state is
\* Destroyed, then SimulationDestroyed is sent
SimWorkerCommands ==
    LET r == SimPass(TRUE, TRUE, FALSE)
    IN /\ sim_worker = "commands"
       /\ IF sim_state = "Destroyed"
          THEN /\ sim_events' = Append(sim_events, [type |-> "SimulationDestroyed"])
               /\ sim_worker' = "done"
               /\ UNCHANGED <<sim_commands, sim_timeout>>
          ELSE /\ sim_commands # <<>>
               /\ sim_commands' = <<>>
               /\ sim_timeout' = r.timeout
               /\ sim_events' = sim_events \o r.events
               /\ UNCHANGED sim_worker
       /\ UNCHANGED <<sim_state, sim_user, sim_handler, sim_rate_limit, sim_time,
                      sim_next_op_id, sim_pending_operations, sim_callers>>
       /\ UNCHANGED OtherThanSim

\* Simulation::event_handler: one event is received; an OpResult goes to the
\* PendingOp that pending_operations holds for its op_id
SimHandleEvent ==
    LET event == Head(sim_events)
        hdl == {p \in sim_pending_operations :
                   event.type = "OpResult" /\ p[1] = event.op_id}
    IN /\ sim_handler = "running"
       /\ sim_events # <<>>
       /\ sim_events' = Tail(sim_events)
       /\ sim_state' = IF event.type = "TimeoutElapsed" THEN "Stopping" ELSE sim_state
       /\ sim_handler' = IF event.type = "SimulationDestroyed" THEN "returned"
                         ELSE IF event.type = "OpResult" /\ hdl = {} THEN "panicked"
                         ELSE sim_handler
       /\ sim_pending_operations' = sim_pending_operations \ hdl
       /\ sim_callers' = [caller \in 1..SimNumCallers |->
              IF \E p \in hdl : p[2] = caller
              THEN [sim_callers[caller] EXCEPT !.result = {event.result}]
              ELSE sim_callers[caller]]
       /\ UNCHANGED <<sim_user, sim_worker, sim_commands, sim_timeout, sim_rate_limit,
                      sim_time, sim_next_op_id>>
       /\ UNCHANGED OtherThanSim

NextSim ==
    \/ SimSetTimeout \/ SimStart \/ SimWaitForStop \/ SimReturn \/ SimStop
    \/ SimSetRateLimit \/ SimDropStop \/ SimDropDestroy
    \/ \E caller \in 1..SimNumCallers :
          SimIssueOperation(caller) \/ SimOperationReturn(caller)
    \/ SimWorkerSetUp \/ SimWorkerRunning \/ SimWorkerLoop \/ SimWorkerPaused
    \/ SimWorkerStopped \/ SimWorkerCommands \/ SimHandleEvent

\* The Simulation used through run_until alone, with no rate limit
NextRunUntil ==
    \/ SimSetTimeout \/ SimStart \/ SimReturn
    \/ SimWorkerSetUp \/ SimWorkerRunning \/ SimWorkerLoop \/ SimWorkerStopped
    \/ SimHandleEvent

\* Simulation::stop called on a Simulation that has been started
SimStopStarted == sim_state # "SettingUp" /\ SimStop

\* The Simulation started, paused, resumed and stopped by its user, with no
\* timeout and no operation request
NextSimStop ==
    \/ SimStart \/ SimWaitForStop \/ SimReturn \/ SimSetRateLimit \/ SimStopStarted
    \/ SimWorkerSetUp \/ SimWorkerRunning \/ SimWorkerLoop \/ SimWorkerPaused
    \/ SimWorkerStopped \/ SimHandleEvent

\* The worker and the handler thread run, and a thread inside a call of the
\* Simulation goes on when its wait ends
FairSim ==
    /\ WF_vars(SimWorkerSetUp \/ SimWorkerRunning \/ SimWorkerLoop \/ SimWorkerPaused
                  \/ SimWorkerStopped \/ SimWorkerCommands)
    /\ WF_vars(SimHandleEvent)
    /\ WF_vars(SimReturn \/ (SimStart /\ sim_user = "run_until"))
    /\ \A caller \in 1..SimNumCallers : WF_vars(SimOperationReturn(caller))

\* A worker that is notified again and again runs in the end, even when the
\* rate limit is set back to 0 in between
FairSimStop ==
    /\ SF_vars(SimWorkerSetUp \/ SimWorkerRunning \/ SimWorkerLoop \/ SimWorkerPaused
                  \/ SimWorkerStopped)
    /\ WF_vars(SimHandleEvent)
    /\ WF_vars(SimReturn)

\* The Simulation of a protocol that is not compatible with the connectivity
\* (PracticalBFT or Snowball with Connectivity::Sparse)
NextSimIncompatible ==
    \/ SimSetTimeout \/ SimStart \/ SimWaitForStop \/ SimReturn \/ SimStop
    \/ SimSetRateLimit \/ SimDropStop \/ SimDropDestroy
    \/ \E caller \in 1..SimNumCallers :
          SimIssueOperation(caller) \/ SimOperationReturn(caller)
    \/ SimWorkerBuildScenePanics \/ SimHandleEvent

FairSimIncompatible ==
    /\ WF_vars(SimWorkerBuildScenePanics)
    /\ WF_vars(SimHandleEvent)
    /\ WF_vars(SimReturn \/ (SimStart /\ sim_user = "run_until"))
    /\ \A caller \in 1..SimNumCallers : WF_vars(SimOperationReturn(caller))

\* C30 as stated: once the state is Destroyed, no step of the thread that
\* drops the Simulation, of the worker thread or of the event-handler thread
\* changes it to another state.
C30_AsStated == [][sim_state = "Destroyed" => sim_state' = "Destroyed"]_vars

\* C10 as stated: the state never changes to a state that comes earlier in
\* SettingUp, Starting, Running, Stopping, Stopped, Destroyed.
C10_AsStated == [][SimRank(sim_state') >= SimRank(sim_state)]_vars

\* C11 as stated: after run_until is called on a fresh Simulation,
\* TimeoutElapsed is posted, the state becomes Stopped and run_until returns.
C11_AsStated ==
    (sim_user = "run_until" /\ sim_state = "SettingUp")
        ~> (sim_timeout.status = "elapsed" /\ sim_state = "Stopped" /\ sim_user = "idle")

\* C12 as stated: every operation request eventually returns, and with the
\* result the driver computed for its own op-id.
C12_AsStated ==
    \A caller \in 1..SimNumCallers :
        /\ [](\A result \in sim_callers[caller].returned :
                 result.op_id = sim_callers[caller].op_id)
        /\ (sim_callers[caller].pc = "wait") ~> (sim_callers[caller].pc = "idle")

\* C13 as stated: while the rate limit is 0 the driver does not advance
\* virtual time, and a request issued while the driver is paused is answered.
C13_AsStated ==
    /\ [][(sim_rate_limit = {0} /\ sim_rate_limit' = {0}) => sim_time' = sim_time]_vars
    /\ \A caller \in 1..SimNumCallers :
          (sim_worker = "paused" /\ sim_callers[caller].pc = "wait")
              ~> (sim_callers[caller].pc = "idle")

\* C31 as stated: after stop() stored Stopping while a thread is still inside
\* start(), or while the driver is paused with rate limit 0, the state
\* becomes Stopped.
C31_AsStated ==
    (/\ sim_state = "Stopping"
     /\ sim_user \in {"start", "run_until_start"} \/ sim_worker = "paused")
        ~> (sim_state = "Stopped")

(***************************************************************************)
(* clients.rs: one client attached to a Nakamoto node.  The node's ledger  *)
(* gets the client's transactions and the blocks that miners produce; the  *)
(* ledger's commit notifications reach Client::notify_transaction_commit.  *)
(***************************************************************************)
ClMaxBlocks == 5        \* blocks that reach the node in one run
ClMaxTxs == 2           \* transactions the client issues in one run

\* asim::time::now: one unit of virtual time passes from one block to the next
ClNow(B) == Len(B)

\* Client::new; issued and commits are history: the issue time of each
\* transaction, and each notification with the outstanding transaction
Cl_Client_new ==
    [ next_nonce |-> 1, txn_issue_time |-> {}, latencies |-> <<>>,
      commit_notify |-> 0, waiting |-> FALSE, panicked |-> FALSE,
      issued |-> <<>>, commits |-> <<>> ]

\* Client::notify_transaction_commit, once for each transaction the ledger
\* notified in one call, in order
RECURSIVE notify_transaction_commit(_, _, _)
notify_transaction_commit(client, txns, now) ==
    IF txns = <<>> \/ client.panicked THEN client
    ELSE IF client.txn_issue_time = {}
    THEN [client EXCEPT !.panicked = TRUE]
    ELSE LET issue_time == CHOOSE t \in client.txn_issue_time : TRUE
         IN notify_transaction_commit(
                [client EXCEPT !.latencies = Append(@, now - issue_time),
                               !.commit_notify = 1,
                               !.commits = Append(@,
                                   [txn |-> Head(txns), time |-> now,
                                    outstanding |-> IF client.waiting
                                                    THEN client.next_nonce - 1 ELSE 0])],
                Tail(txns), now)

\* Client::run, lines 56-71: the next transaction is issued
ClIssue ==
    /\ ~cl_client.waiting
    /\ ~cl_client.panicked /\ ~cl_ledger.panicked
    /\ cl_client.next_nonce <= ClMaxTxs
    /\ cl_client' = [cl_client EXCEPT !.txn_issue_time = {ClNow(cl_blocks)},
                                      !.next_nonce = @ + 1,
                                      !.waiting = TRUE,
                                      !.issued = Append(@, ClNow(cl_blocks))]
    /\ cl_ledger' = Ledger_add_transaction(cl_ledger, cl_client.next_nonce)
    /\ UNCHANGED cl_blocks
    /\ UNCHANGED OtherThanClient

\* Client::run, lines 73-79: commit_notify.notified() returns
ClNotified ==
    /\ cl_client.waiting
    /\ cl_client.commit_notify = 1
    /\ ~cl_client.panicked
    /\ cl_client' = [cl_client EXCEPT !.commit_notify = 0, !.waiting = FALSE]
    /\ UNCHANGED <<cl_ledger, cl_blocks>>
    /\ UNCHANGED OtherThanClient

\* A block made by some miner reaches the node: add_new_block, and the
\* closure of NakamotoNodeLogic::init for every commit the ledger notifies
ClAddNewBlock ==
    \E parent \in cl_ledger.blocks \cup {GENESIS_BLOCK} :
      \E txs \in SUBSET (cl_ledger.known_transactions \ ChainTxs(cl_blocks, parent)) :
        LET id == Len(cl_blocks) + 1
            height == IF parent = GENESIS_BLOCK THEN GENESIS_HEIGHT + 1
                      ELSE cl_blocks[parent].height + 1
            B == Append(cl_blocks, NakamotoBlock_new(0, parent, {}, height, 0, txs))
        IN /\ ~cl_ledger.panicked /\ ~cl_client.panicked
           /\ Len(cl_blocks) < ClMaxBlocks
           /\ Cardinality(txs) <= MaxBlockSize
           /\ \E pick \in Ledger_picks(cl_ledger, B, id) :
                /\ cl_ledger' = Ledger_add_new_block(cl_ledger, B, id, pick, CommitDelay)
                /\ cl_client' = notify_transaction_commit(cl_client, cl_ledger'.notified,
                                                          ClNow(B))
           /\ cl_blocks' = mark_as_seen(B, id)
           /\ UNCHANGED OtherThanClient

NextClient == ClIssue \/ ClNotified \/ ClAddNewBlock

\* C18 as stated: the i-th latency is the time at which the client's i-th
\* transaction was committed minus the time it was issued, and is positive;
\* the client records one latency per committed transaction and is notified
\* of no transaction other than its outstanding one.
C18_AsStated ==
    /\ \A i \in 1..Len(cl_client.latencies) :
          /\ cl_client.latencies[i] > 0
          /\ \E j \in 1..Len(cl_client.commits) :
                /\ cl_client.commits[j].txn = i
                /\ cl_client.latencies[i] = cl_client.commits[j].time - cl_client.issued[i]
    /\ \A j, k \in 1..Len(cl_client.commits) :
          j # k => cl_client.commits[j].txn # cl_client.commits[k].txn
    /\ \A j \in 1..Len(cl_client.commits) :
          cl_client.commits[j].outstanding = cl_client.commits[j].txn

(***************************************************************************)
(* simulation.rs: build_scene for NetworkConfiguration::Random.  The nodes *)
(* are generated, then one pass of the outer loop over idx1 is one step.   *)
(***************************************************************************)
ScMaxNodes == 4         \* num_mining_nodes + num_non_mining_nodes is 1..ScMaxNodes
ScMaxConns == 3         \* min_conns_per_node is 0..ScMaxConns

\* Location: <<longitude, latitude>>
ScLocations == {<<0, 0>>, <<1, 0>>, <<0, 2>>}
ScProtocols == {"NakamotoConsensus", "PracticalBFT", "Gossip", "Snowball"}

\* The square of Location::distance; the f32 square root keeps the order of
\* the sums of two squares of degrees
distance(self, other) ==
    (self[2] - other[2]) * (self[2] - other[2]) + (self[1] - other[1]) * (self[1] - other[1])

\* GlobalLogic::is_compatible_with_connectivity of the logics of ScProtocols
is_compatible_with_connectivity(protocol, connectivity) ==
    IF protocol \in {"PracticalBFT", "Snowball"} THEN connectivity.type = "Full" ELSE TRUE

\* A build_connection that adds no link to the scene
ScNoConnection(links, node1, node2) == links

\* build_connection: create_link and Scene::add_link; every call adds a link
\* under a new identifier
build_connection(links, node1, node2) == Append(links, <<node1, node2>>)

\* Node::num_peers after Node::connect was called for every link
num_peers(links, node) ==
    Cardinality({i \in 1..Len(links) : links[i][1] = node \/ links[i][2] = node})

\* build_scene, lines 648-666: the other nodes, closest first; sort_by is
\* stable, so nodes at the same distance stay in the order of their index
RECURSIVE ScSorted(_, _, _)
ScSorted(locations, idx1, others) ==
    IF others = {} THEN <<>>
    ELSE LET first == CHOOSE a \in others : \A b \in others :
                          \/ distance(locations[idx1], locations[a])
                                 < distance(locations[idx1], locations[b])
                          \/ /\ distance(locations[idx1], locations[a])
                                    = distance(locations[idx1], locations[b])
                             /\ a <= b
         IN <<first>> \o ScSorted(locations, idx1, others \ {first})

\* build_scene, lines 668-671: a node that was checked with one connection
\* less than asked for
ScDoneOneShort(conns_per_nodes, idx1, min_conns_per_node) ==
    conns_per_nodes[idx1] + 1 >= min_conns_per_node

\* build_scene, lines 668-671: "Done?"
ScDone(conns_per_nodes, idx1, min_conns_per_node) ==
    conns_per_nodes[idx1] >= min_conns_per_node

\* build_scene, lines 667-692: the loop over sorted_nodes for idx1
RECURSIVE ScConnect(_, _, _, _)
ScConnect(s, idx1, sorted_nodes, min_conns_per_node) ==
    IF sorted_nodes = <<>> \/ ScDone(s.conns_per_nodes, idx1, min_conns_per_node) THEN s
    ELSE LET idx2 == Head(sorted_nodes)
             key == IF idx1 < idx2 THEN <<idx1, idx2>> ELSE <<idx2, idx1>>
         IN IF idx1 = idx2 \/ key \in s.known_links
            THEN ScConnect(s, idx1, Tail(sorted_nodes), min_conns_per_node)
            ELSE ScConnect([known_links |-> s.known_links \cup {key},
                            links |-> build_connection(s.links, idx1, idx2),
                            conns_per_nodes |->
                                [s.conns_per_nodes EXCEPT ![idx1] = @ + 1, ![idx2] = @ + 1]],
                           idx1, Tail(sorted_nodes), min_conns_per_node)

\* build_scene, lines 628-634: the inner loop over idx2 in idx1 + 1..len
RECURSIVE ScFull(_, _, _, _)
ScFull(links, idx1, idx2, len) ==
    IF idx2 >= len THEN links
    ELSE ScFull(build_connection(links, idx1, idx2), idx1, idx2 + 1, len)

\* Simulation::new with a Random network, and build_scene up to the match on
\* the connectivity (lines 583-641): the nodes are generated at their
\* locations and the two checks are made
ScGenerateNodes ==
    \E num_nodes \in 1..ScMaxNodes, protocol \in ScProtocols :
      \E locations \in [0..(num_nodes - 1) -> ScLocations],
         connectivity \in {[type |-> "Full", min_conns_per_node |-> 0]}
                            \cup {[type |-> "Sparse", min_conns_per_node |-> k] :
                                     k \in 0..ScMaxConns} :
        /\ sc_pc = "new"
        /\ sc_config' = [protocol |-> protocol, connectivity |-> connectivity,
                         locations |-> locations]
        /\ sc_pc' = IF ~is_compatible_with_connectivity(protocol, connectivity)
                       \/ (connectivity.type = "Sparse"
                           /\ ~(connectivity.min_conns_per_node > 1))
                    THEN "panicked" ELSE "links"
        /\ sc_idx1' = 0
        /\ sc_scene' = [known_links |-> {}, links |-> <<>>,
                        conns_per_nodes |-> [n \in 0..(num_nodes - 1) |-> 0]]
        /\ UNCHANGED OtherThanScene

\* build_scene, lines 627-635: one pass of the outer loop of Connectivity::Full
ScLinkFull ==
    LET len == Cardinality(DOMAIN sc_config.locations)
    IN /\ sc_pc = "links"
       /\ sc_config.connectivity.type = "Full"
       /\ sc_scene' = [sc_scene EXCEPT !.links = ScFull(@, sc_idx1, sc_idx1 + 1, len)]
       /\ sc_idx1' = sc_idx1 + 1
       /\ sc_pc' = IF sc_idx1 + 1 >= len THEN "done" ELSE "links"
       /\ UNCHANGED sc_config
       /\ UNCHANGED OtherThanScene

\* build_scene, lines 645-693: one pass of the outer loop of Connectivity::Sparse
ScLinkSparse ==
    LET len == Cardinality(DOMAIN sc_config.locations)
        sorted_nodes == ScSorted(sc_config.locations, sc_idx1,
                                 DOMAIN sc_config.locations \ {sc_idx1})
    IN /\ sc_pc = "links"
       /\ sc_config.connectivity.type = "Sparse"
       /\ sc_scene' = ScConnect(sc_scene, sc_idx1, sorted_nodes,
                                sc_config.connectivity.min_conns_per_node)
       /\ sc_idx1' = sc_idx1 + 1
       /\ sc_pc' = IF sc_idx1 + 1 >= len THEN "done" ELSE "links"
       /\ UNCHANGED sc_config
       /\ UNCHANGED OtherThanScene

NextScene == ScGenerateNodes \/ ScLinkFull \/ ScLinkSparse

\* The scene is built, or build_scene panicked
ScBuilt(type) ==
    /\ sc_pc \in {"done", "panicked"}
    /\ sc_config.connectivity.type = type

ScNodes == DOMAIN sc_config.locations

\* C19: with Full connectivity and N >= 2 nodes the scene holds N(N-1)/2
\* links, one for every unordered pair of distinct nodes, and every node has
\* N-1 peers; with N = 2 there is one link.
C19_FullLinks ==
    (ScBuilt("Full") /\ Cardinality(ScNodes) >= 2) =>
        LET N == Cardinality(ScNodes)
            links == sc_scene.links
        IN /\ sc_pc = "done"
           /\ 2 * Len(links) = N * (N - 1)
           /\ \A a, b \in ScNodes :
                 a < b => Cardinality({i \in 1..Len(links) : links[i] = <<a, b>>}) = 1
           /\ \A n \in ScNodes : num_peers(links, n) = N - 1
           /\ N = 2 => Len(links) = 1

\* A scene of the largest network was built with Full connectivity
C19_Witness ==
    /\ ScBuilt("Full")
    /\ sc_pc = "done"
    /\ Cardinality(ScNodes) = ScMaxNodes
    /\ 2 * Len(sc_scene.links) = ScMaxNodes * (ScMaxNodes - 1)

\* C20 as stated: with Sparse connectivity and min_conns_per_node = k on more
\* than k nodes, every node has at least k peers, whatever the locations.
C20_AsStated ==
    (ScBuilt("Sparse")
        /\ Cardinality(ScNodes) > sc_config.connectivity.min_conns_per_node) =>
        \A n \in ScNodes :
            num_peers(sc_scene.links, n) >= sc_config.connectivity.min_conns_per_node

\* C20 amended: with Sparse connectivity, min_conns_per_node = k >= 2, a
\* logic that is compatible with Sparse connectivity and more than k nodes,
\* the scene is built and every node has at least k peers, whatever the
\* locations.
C20_SparsePeers ==
    (ScBuilt("Sparse")
        /\ sc_config.connectivity.min_conns_per_node >= 2
        /\ is_compatible_with_connectivity(sc_config.protocol, sc_config.connectivity)
        /\ Cardinality(ScNodes) > sc_config.connectivity.min_conns_per_node) =>
        /\ sc_pc = "done"
        /\ \A n \in ScNodes :
              num_peers(sc_scene.links, n) >= sc_config.connectivity.min_conns_per_node

\* A scene was built with min_conns_per_node = 2 in which a node was linked
\* by others before its own pass and not every pair of nodes has a link
C20_Witness ==
    /\ ScBuilt("Sparse")
    /\ sc_pc = "done"
    /\ sc_config.connectivity.min_conns_per_node = 2
    /\ Cardinality(ScNodes) = ScMaxNodes
    /\ 2 * Len(sc_scene.links) < ScMaxNodes * (ScMaxNodes - 1)
    /\ \E n \in ScNodes : num_peers(sc_scene.links, n) > 2

(***************************************************************************)
(* runners.rs and config.rs: the IntervalGenerator of a parameter sweep.   *)
(* A number is a fraction <<n, d>>; an f64 is a fraction that a binary     *)
(* significand of FloatBits bits represents, and every f64 operation       *)
(* rounds its exact result to the nearest such fraction, ties to even.     *)
(***************************************************************************)
FloatBits == 5          \* bits of the significand (an f64 has 53)
SwMaxRanges == 2        \* data_ranges holds 1..SwMaxRanges ranges

\* The exponents a rounded value of the model can have
FloatExponents == (0 - 12)..6

Pow2(k) == 2 ^ k

\* Round-to-nearest, ties to even, of the fraction n / d >= 0
FloatRound(n, d) ==
    IF n = 0 THEN <<0, 1>>
    ELSE LET e == CHOOSE x \in FloatExponents :
                     LET N == n * Pow2(IF x < 0 THEN 0 - x ELSE 0)
                         D == d * Pow2(IF x > 0 THEN x ELSE 0)
                     IN Pow2(FloatBits - 1) * D <= N /\ N < Pow2(FloatBits) * D
             N == n * Pow2(IF e < 0 THEN 0 - e ELSE 0)
             D == d * Pow2(IF e > 0 THEN e ELSE 0)
             m == N \div D
             rem == N - m * D
             up == 2 * rem > D \/ (2 * rem = D /\ m % 2 = 1)
             significand == IF up THEN m + 1 ELSE m
         IN <<significand * Pow2(IF e > 0 THEN e ELSE 0), Pow2(IF e < 0 THEN 0 - e ELSE 0)>>

\* The arithmetic of i64 (exact) and of f64 (rounded)
NumAdd(float, a, b) ==
    IF float THEN FloatRound(a[1] * b[2] + b[1] * a[2], a[2] * b[2])
    ELSE <<a[1] + b[1], 1>>
NumSub(float, a, b) ==
    IF float THEN FloatRound(a[1] * b[2] - b[1] * a[2], a[2] * b[2])
    ELSE <<a[1] - b[1], 1>>
NumMul(float, index, b) ==
    IF float THEN FloatRound(index * b[1], b[2]) ELSE <<index * b[1], 1>>
NumLeq(a, b) == a[1] * b[2] <= b[1] * a[2]

\* (range / step_size) as usize
NumDivAsUsize(float, a, b) ==
    IF float
    THEN LET q == FloatRound(a[1] * b[2], a[2] * b[1]) IN q[1] \div q[2]
    ELSE a[1] \div b[1]

\* Interval::LinearInt and Interval::LinearFloat of a configuration file; a
\* decimal float is read as the nearest f64
LinearInt(start, end, step_size) ==
    [float |-> FALSE, start |-> <<start, 1>>, end |-> <<end, 1>>,
     step_size |-> <<step_size, 1>>]
LinearFloat(start, end, step_size) ==
    [float |-> TRUE, start |-> FloatRound(start, 10), end |-> FloatRound(end, 10),
     step_size |-> FloatRound(step_size, 10)]

\* The ranges of the sweeps of the model: tenths for the floats
SwIntervals ==
    {LinearInt(10, 30, 10), LinearInt(10, 35, 10), LinearInt(0, 1, 1), LinearInt(5, 1, 1),
     LinearFloat(2, 10, 2), LinearFloat(3, 9, 2)}
SwParameters == {"NumClients", "NumMiningNodes"}

\* Interval::is_valid
Interval_is_valid(interval) ==
    NumLeq(interval.start, interval.end) /\ interval.step_size[1] > 0

\* Interval::num_steps
Interval_num_steps(interval) ==
    NumDivAsUsize(interval.float, NumSub(interval.float, interval.end, interval.start),
                  interval.step_size) + 1

\* Interval::get_step: {} is None
Interval_get_step(interval, index) ==
    LET value == NumAdd(interval.float, interval.start,
                        NumMul(interval.float, index, interval.step_size))
    IN IF NumLeq(value, interval.end) THEN {value} ELSE {}

\* IntervalGenerator::num_steps
RECURSIVE IntervalGenerator_num_steps(_)
IntervalGenerator_num_steps(data_ranges) ==
    IF data_ranges = <<>> THEN 1
    ELSE Interval_num_steps(Head(data_ranges).interval)
            * IntervalGenerator_num_steps(Tail(data_ranges))

\* IntervalGenerator::get_step: {} is None, {result} is Some(result)
RECURSIVE IntervalGenerator_get_step(_, _)
IntervalGenerator_get_step(data_ranges, idx) ==
    IF data_ranges = <<>> THEN {<<>>}
    ELSE LET interval == Head(data_ranges).interval
             val == Interval_get_step(interval, idx % Interval_num_steps(interval))
             rest == IntervalGenerator_get_step(Tail(data_ranges),
                                                idx \div Interval_num_steps(interval))
         IN {<<v>> \o r : v \in val, r \in rest}

\* IntervalGenerator::new
SwNew ==
    \E data_ranges \in UNION {[1..n -> [param : SwParameters, interval : SwIntervals]] :
                                 n \in 0..SwMaxRanges} :
        /\ sw_pc = "new"
        /\ sw_data_ranges' = data_ranges
        /\ sw_pc' = IF \E i \in DOMAIN data_ranges : ~Interval_is_valid(data_ranges[i].interval)
                    THEN "panicked"
                    ELSE IF \/ \E i, j \in DOMAIN data_ranges :
                                  i # j /\ data_ranges[i].param = data_ranges[j].param
                            \/ data_ranges = <<>>
                    THEN "error"
                    ELSE "ready"
        /\ UNCHANGED <<sw_pos, sw_steps>>
        /\ UNCHANGED OtherThanSweep

\* IntervalGenerator::get_next
SwGetNext ==
    LET result == IntervalGenerator_get_step(sw_data_ranges, sw_pos)
    IN /\ sw_pc = "ready"
       /\ IF sw_pos >= IntervalGenerator_num_steps(sw_data_ranges)
          THEN /\ sw_pc' = "done"
               /\ UNCHANGED <<sw_pos, sw_steps>>
          ELSE IF result = {}
          THEN /\ sw_pc' = "panicked"
               /\ UNCHANGED <<sw_pos, sw_steps>>
          ELSE /\ sw_steps' = Append(sw_steps, CHOOSE r \in result : TRUE)
               /\ sw_pos' = sw_pos + 1
               /\ UNCHANGED sw_pc
       /\ UNCHANGED sw_data_ranges
       /\ UNCHANGED OtherThanSweep

NextSweep == SwNew \/ SwGetNext

\* C21 as stated: get_step fails for no index below num_steps; step 0 has
\* the start value of every range and step num_steps - 1 the end value; no
\* two steps are the same combination.
C21_AsStated ==
    (/\ sw_pc \in {"ready", "done", "panicked"}
     /\ \A i \in DOMAIN sw_data_ranges : Interval_is_valid(sw_data_ranges[i].interval)) =>
        LET num_steps == IntervalGenerator_num_steps(sw_data_ranges)
            step(idx) == IntervalGenerator_get_step(sw_data_ranges, idx)
        IN /\ \A idx \in 0..(num_steps - 1) : step(idx) # {}
           /\ \A first \in step(0) : \A i \in DOMAIN sw_data_ranges :
                 first[i] = sw_data_ranges[i].interval.start
           /\ \A last \in step(num_steps - 1) : \A i \in DOMAIN sw_data_ranges :
                 /\ NumLeq(last[i], sw_data_ranges[i].interval.end)
                 /\ NumLeq(sw_data_ranges[i].interval.end, last[i])
           /\ \A a, b \in 0..(num_steps - 1) : a # b => step(a) # step(b)

\* C22 as stated: with a protocol that is not compatible with the
\* connectivity, a call of start() that waits for the simulation to start
\* eventually ends.
C22_AsStated ==
    (sim_user \in {"start", "run_until_start"})
        ~> (sim_user \notin {"start", "run_until_start"})

\* C23 as stated: with Snowball, once warmup + runtime blocks have completed
\* (every node has decided, which is the one block of a Snowball run), the
\* task of a Blocks{warmup, runtime} timeout eventually posts TimeoutElapsed.
C23_AsStated ==
    (/\ sb_timeout.pc # "unset"
     /\ \A n \in SbNodeIds : sb_nodes[n].decided)
        ~> (sb_timeout.pc = "elapsed")

\* C24 as stated, for a block that was not committed before: whenever the
\* chain head of the ledger changes to a block N with N.height >
\* commit_delay, and the block commit_delay parents back from N is not on
\* the chain of the old head, the callback is invoked in that call of
\* add_new_block once for every transaction of that block.
C24_AsStated ==
    [][LET committed_block ==
               CommittedBlock(ledger', all_blocks', ChainHead(ledger'), CommitDelay)
           txns == all_blocks'[committed_block].transactions
           calls == ledger'.notified
       IN (/\ ChainHead(ledger') # ChainHead(ledger)
           /\ ~ledger'.panicked
           /\ all_blocks'[ChainHead(ledger')].height > CommitDelay
           /\ committed_block \notin Chain(all_blocks, ChainHead(ledger)))
          => /\ Len(calls) = Cardinality(txns)
             /\ {calls[i] : i \in DOMAIN calls} = txns]_vars

\* C27 as stated: when a node proposes, the block holds at most
\* max_block_size transactions of its mempool, and every transaction of the
\* mempool that is not in the block is in the mempool afterwards.
C27_AsStated ==
    [][\A self \in PbftNodeIds :
          (/\ Len(pbft_blocks') = Len(pbft_blocks) + 1
           /\ pbft_nodes'[self].last_proposed_round # pbft_nodes[self].last_proposed_round
           /\ ~pbft_panicked')
          => LET transactions == pbft_blocks'[Len(pbft_blocks')]
             IN /\ Cardinality(transactions) <= PbftMaxBlockSize
                /\ transactions \subseteq pbft_nodes[self].mempool
                /\ pbft_nodes[self].mempool \ transactions
                       \subseteq pbft_nodes'[self].mempool]_vars

\* C29: the leader proposes at most once for a slot, and for slot s + 1 only
\* after it has finalized slot s; no node handles a second PrePrepare for a
\* round, and no abort of the PBFT logic is reached.
C29_OnePrePreparePerSlot ==
    /\ [](~pbft_panicked)
    /\ [][Len(pbft_blocks') > Len(pbft_blocks) =>
            LET slot == pbft_nodes[0].current_round
            IN /\ pbft_nodes[0].last_proposed_round < slot
               /\ pbft_nodes'[0].last_proposed_round = slot
               /\ Len(pbft_finalized[0]) = slot - 1
               /\ \A n \in PbftNodeIds \ {0} :
                      pbft_nodes'[n].last_proposed_round = NoRound]_vars

\* The leader finalized slot 1 and proposed for slot 2, and a replica holds
\* the block of the second PrePrepare
C29_Witness ==
    /\ pbft_nodes[0].last_proposed_round = 2
    /\ Len(pbft_finalized[0]) >= 1
    /\ \E n \in PbftNodeIds \ {0} :
          /\ 2 \in DOMAIN pbft_nodes[n].rounds
          /\ pbft_nodes[n].rounds[2].block # <<>>
    /\ ~pbft_panicked

(***************************************************************************)
(* logic/pbft in a network of four nodes, of which three are a quorum: the *)
(* NodeState of replica PrSelf and the messages its three peers send it.   *)
(* The peers reach every quorum among themselves, so each of them sends    *)
(* the messages of the slots in order whatever the replica does, and the   *)
(* links deliver them in any interleaving.                                 *)
(***************************************************************************)
PrNumNodes == 4         \* nodes of the network; node 0 is the leader
PrMaxSlots == 2         \* slots for which the leader proposes
PrSelf == 1
PrPeers == (0..(PrNumNodes - 1)) \ {PrSelf}

\* PbftGlobalLogic::instantiate for PrNumNodes nodes
PrQuorumSize == PrNumNodes - ((PrNumNodes - 1) \div 3)

\* The block the leader proposes for a slot
PrBlock(slot) ==
    [id |-> slot, parent |-> IF slot = 1 THEN GENESIS_BLOCK ELSE slot - 1, mined_by |-> 0,
     transactions |-> {<<1, slot>>}, slot |-> slot]

\* What a peer broadcasts for one slot: the leader in propose_block and all
\* nodes in handle_message and maybe_commit
PrSlotMessages(peer, slot) ==
    (IF peer = 0 THEN <<[type |-> "PrePrepare", block |-> PrBlock(slot)]>> ELSE <<>>)
        \o <<[type |-> "Prepare", slot |-> slot], [type |-> "Commit", slot |-> slot]>>

RECURSIVE PrMessages(_, _)
PrMessages(peer, slots) ==
    IF slots = 0 THEN <<>>
    ELSE PrMessages(peer, slots - 1) \o PrSlotMessages(peer, slots)

PrNoMessage ==
    [source |-> NoNode, message |-> [type |-> "None", slot |-> 0],
     before |-> PbftNodeLogic_new(PrSelf), sent |-> <<>>, accepted |-> <<>>,
     panicked |-> FALSE]

\* PbftNodeLogic::handle_message at the replica, for the next message of a
\* peer; the quorum of four nodes is the quorum_size of the operators
PrDeliver(peer) ==
    LET messages == PrMessages(peer, PrMaxSlots)
        message == messages[pr_received[peer] + 1]
        r == handle_message(Handling(pr_state), PrSelf, peer, message)
    IN /\ ~pr_last.panicked
       /\ PrQuorumSize = quorum_size
       /\ pr_received[peer] < Len(messages)
       /\ pr_received' = [pr_received EXCEPT ![peer] = @ + 1]
       /\ pr_state' = r.state
       /\ pr_last' = [source |-> peer,
                      message |-> [type |-> message.type, slot |-> get_slot(message)],
                      before |-> pr_state, sent |-> r.sent, accepted |-> r.accepted,
                      panicked |-> r.panicked]
       /\ UNCHANGED OtherThanReplica

NextReplica == \E peer \in PrPeers : PrDeliver(peer)

\* C28 as stated: a Prepare or Commit whose slot is lower than the current
\* round of the node changes no round state and triggers no broadcast and no
\* finalization.
C28_AsStated ==
    (/\ pr_last.message.type \in {"Prepare", "Commit"}
     /\ pr_last.message.slot < pr_last.before.current_round)
        => /\ pr_state.rounds = pr_last.before.rounds
           /\ pr_last.sent = <<>>
           /\ pr_last.accepted = <<>>

(***************************************************************************)
(* logic/nakamoto/block_generator.rs: Ouroboros block generation.  Every   *)
(* node has its own generator; the run loop of a mining node calls         *)
(* should_create_block once per slot and sleeps for the slot length.       *)
(***************************************************************************)
OuMaxNodes == 3         \* the largest number of mining nodes
OuMaxNonMining == 1     \* the largest number of non-mining nodes
OuMaxBlockSize == 3     \* the largest max_block_size of the configuration
OuMaxSlots == 4         \* slots 0..OuMaxSlots are run

\* make_block_generator for NakamotoBlockGenerationConfig::Ouroboros
make_block_generator(num_nodes) == [num_nodes |-> num_nodes, next_block_generator |-> 0]

\* Ouroboros::should_create_block: the result and the generator after the call
should_create_block(generator, idx) ==
    [result |-> (idx = generator.next_block_generator),
     generator |-> [generator EXCEPT
                      !.next_block_generator = (@ + 1) % generator.num_nodes]]

\* build_scene, lines 592-613: nodes 0..num_mining_nodes-1 mine
OuMiners == 0..(ou_config.num_mining_nodes - 1)

\* initialize_logic with no faulty node, new_node_logic and
\* NakamotoNodeLogic::new for every node: the arguments in the order of the
\* call of NakamotoGlobalLogic::instantiate
OuInstantiate ==
    \E mining \in 1..OuMaxNodes, non_mining \in 0..OuMaxNonMining,
       max_block_size \in 1..OuMaxBlockSize :
        LET logic == NakamotoGlobalLogic_instantiate(max_block_size, mining + non_mining)
        IN /\ ou_pc = "new"
           /\ ou_config' = [num_mining_nodes |-> mining,
                            num_non_mining_nodes |-> non_mining,
                            max_block_size |-> max_block_size]
           /\ ou_generators' = [n \in 0..(mining + non_mining - 1) |->
                                  make_block_generator(logic.num_block_generators)]
           /\ ou_pc' = "running"
           /\ UNCHANGED <<ou_slot, ou_ran, ou_blocks>>
           /\ UNCHANGED OtherThanOuro

\* NakamotoNodeLogic::run, lines 351-366: one pass of the loop of a mining
\* node, up to its sleep
OuRun ==
    \E self \in OuMiners \ ou_ran :
        LET r == should_create_block(ou_generators[self], self)
        IN /\ ou_pc = "running"
           /\ ou_generators' = [ou_generators EXCEPT ![self] = r.generator]
           /\ ou_blocks' = IF r.result THEN ou_blocks \cup {<<ou_slot, self>>}
                           ELSE ou_blocks
           /\ ou_ran' = ou_ran \cup {self}
           /\ UNCHANGED <<ou_config, ou_slot, ou_pc>>
           /\ UNCHANGED OtherThanOuro

\* The sleeps of all mining nodes end: the next slot begins
OuSleep ==
    /\ ou_pc = "running"
    /\ ou_ran = OuMiners
    /\ ou_slot < OuMaxSlots
    /\ ou_slot' = ou_slot + 1
    /\ ou_ran' = {}
    /\ UNCHANGED <<ou_config, ou_generators, ou_blocks, ou_pc>>
    /\ UNCHANGED OtherThanOuro

NextOuro == OuInstantiate \/ OuRun \/ OuSleep

\* C34 as stated: with M = num_correct_nodes block generators, the leader of
\* slot s is node s mod M; in every slot that all mining nodes have passed,
\* the leader created a block if it is a mining node, and no other node
\* created one.
C34_AsStated ==
    ou_pc = "running" =>
        LET M == ou_config.num_mining_nodes + ou_config.num_non_mining_nodes
        IN \A slot \in 0..ou_slot :
              (slot < ou_slot \/ ou_ran = OuMiners) =>
                  {b[2] : b \in {c \in ou_blocks : c[1] = slot}} = {slot % M} \cap OuMiners

(***************************************************************************)
(* runners.rs: ExperimentRunner::run.  The thread of run spawns one thread *)
(* per step, parallelism at a time, and joins them in the order of their   *)
(* spawning; a spawned thread runs run_next, which returns the record of   *)
(* its simulation.                                                         *)
(***************************************************************************)
RnMaxParallelism == 3   \* parallelism is 1..RnMaxParallelism

\* run, lines 360-381: the inner loop that fills tasks from the generator
RECURSIVE RnSpawnTasks(_, _, _)
RnSpawnTasks(generator, tasks, parallelism) ==
    IF Len(tasks) >= parallelism
    THEN [generator |-> generator, tasks |-> tasks, at_end |-> FALSE, panicked |-> FALSE]
    ELSE IF generator.pos >= IntervalGenerator_num_steps(generator.data_ranges)
    THEN [generator |-> generator, tasks |-> tasks, at_end |-> TRUE, panicked |-> FALSE]
    ELSE IF IntervalGenerator_get_step(generator.data_ranges, generator.pos) = {}
    THEN [generator |-> generator, tasks |-> tasks, at_end |-> FALSE, panicked |-> TRUE]
    ELSE RnSpawnTasks([generator EXCEPT !.pos = @ + 1],
                      Append(tasks, [index |-> generator.pos, finished |-> FALSE]),
                      parallelism)

\* ExperimentRunner::new and the head of run: IntervalGenerator::new(data_ranges)?
RnRun ==
    \E data_ranges \in UNION {[1..n -> [param : SwParameters, interval : SwIntervals]] :
                                 n \in 0..SwMaxRanges},
       parallelism \in 1..RnMaxParallelism :
        /\ rn_pc = "new"
        /\ rn_parallelism' = parallelism
        /\ rn_generator' = [data_ranges |-> data_ranges, pos |-> 0]
        /\ rn_pc' = IF \E i \in DOMAIN data_ranges : ~Interval_is_valid(data_ranges[i].interval)
                    THEN "panicked"
                    ELSE IF \/ \E i, j \in DOMAIN data_ranges :
                                  i # j /\ data_ranges[i].param = data_ranges[j].param
                            \/ data_ranges = <<>>
                    THEN "err"
                    ELSE "spawning"
        /\ UNCHANGED <<rn_at_end, rn_tasks, rn_executed, rn_records>>
        /\ UNCHANGED OtherThanRun

\* run, lines 357-385: one pass of the outer loop up to the joins
RnSpawn ==
    LET r == RnSpawnTasks(rn_generator, <<>>, rn_parallelism)
    IN /\ rn_pc = "spawning"
       /\ rn_generator' = r.generator
       /\ rn_tasks' = r.tasks
       /\ rn_at_end' = r.at_end
       /\ rn_pc' = IF r.panicked \/ r.tasks = <<>> THEN "panicked" ELSE "joining"
       /\ UNCHANGED <<rn_parallelism, rn_executed, rn_records>>
       /\ UNCHANGED OtherThanRun

\* A spawned thread: run_next runs the simulation of its step to the end
RnRunNext ==
    \E i \in DOMAIN rn_tasks :
        /\ ~rn_tasks[i].finished
        /\ rn_tasks' = [rn_tasks EXCEPT ![i].finished = TRUE]
        /\ rn_executed' = MapInsert(rn_executed, rn_tasks[i].index,
                                    IF rn_tasks[i].index \in DOMAIN rn_executed
                                    THEN rn_executed[rn_tasks[i].index] + 1 ELSE 1)
        /\ UNCHANGED <<rn_parallelism, rn_generator, rn_at_end, rn_records, rn_pc>>
        /\ UNCHANGED OtherThanRun

\* run, lines 386-389: hdl.join() of the next handle and write_record; after
\* the last handle the outer loop tests at_end
RnJoin ==
    /\ rn_pc = "joining"
    /\ rn_tasks # <<>>
    /\ Head(rn_tasks).finished
    /\ rn_records' = Append(rn_records, Head(rn_tasks).index)
    /\ rn_tasks' = Tail(rn_tasks)
    /\ rn_pc' = IF Tail(rn_tasks) # <<>> THEN "joining"
                ELSE IF rn_at_end THEN "ok" ELSE "spawning"
    /\ UNCHANGED <<rn_parallelism, rn_generator, rn_at_end, rn_executed>>
    /\ UNCHANGED OtherThanRun

NextRun == RnRun \/ RnSpawn \/ RnRunNext \/ RnJoin

\* C40 as stated: for a sweep of num_steps >= 1 steps, each of which
\* get_step yields, and parallelism >= 1, run does not abort, never has more
\* than parallelism threads, runs no step twice, and returns Ok after all
\* num_steps steps have run and their records are written.
C40_AsStated ==
    LET data_ranges == rn_generator.data_ranges
        num_steps == IntervalGenerator_num_steps(data_ranges)
    IN (/\ rn_pc \notin {"new", "err"}
        /\ \A i \in DOMAIN data_ranges : Interval_is_valid(data_ranges[i].interval)
        /\ \A idx \in 0..(num_steps - 1) : IntervalGenerator_get_step(data_ranges, idx) # {}) =>
           /\ rn_pc # "panicked"
           /\ Len(rn_tasks) <= rn_parallelism
           /\ \A idx \in DOMAIN rn_executed : rn_executed[idx] = 1
           /\ rn_pc = "ok" =>
                 /\ DOMAIN rn_executed = 0..(num_steps - 1)
                 /\ {rn_records[a] : a \in DOMAIN rn_records} = 0..(num_steps - 1)

(***************************************************************************)
(* The specifications: one subsystem runs, the others stay as constructed. *)
(***************************************************************************)
Init ==
    /\ all_blocks = <<>>
    /\ ledger = NakamotoNodeLedger_new
    /\ cow_tree = make_branch
    /\ cow_frozen = None
    /\ cow_clone = None
    /\ cow_log = <<>>
    /\ cow_panicked = FALSE
    /\ pbft_nodes = [n \in PbftNodeIds |-> PbftNodeLogic_new(n)]
    /\ pbft_net = [l \in {<<a, b>> \in PbftNodeIds \X PbftNodeIds : a # b} |-> <<>>]
    /\ pbft_clients = [c \in PbftClientIds |-> Client_new]
    /\ pbft_blocks = <<>>
    /\ pbft_finalized = [n \in PbftNodeIds |-> <<>>]
    /\ pbft_panicked = FALSE
    /\ nk_blocks = <<>>
    /\ nk_nodes = [n \in NkNodeIds |-> NakamotoNodeLogic_new]
    /\ nk_net = [k \in NkLinks |-> <<>>]
    /\ nk_calls = <<>>
    /\ nk_panicked = FALSE
    /\ gs_peers = [n \in GsNodeIds |-> {}]
    /\ gs_nodes = [n \in GsNodeIds |-> GossipNodeLogic_new]
    /\ gs_net = [k \in {<<a, b>> \in GsNodeIds \X GsNodeIds : a # b} |-> <<>>]
    /\ gs_seen_by = 0
    /\ sb_sample_size = 0
    /\ sb_query_threshold = 0
    /\ sb_nodes = [n \in SbNodeIds |-> SnowballNodeLogic_new("Red")]
    /\ sb_net = [k \in {<<a, b>> \in SbNodeIds \X SbNodeIds : a # b} |-> <<>>]
    /\ sb_permits = 0
    /\ sb_timeout = [pc |-> "unset", warmup |-> 0, runtime |-> 0]
    /\ cl_ledger = NakamotoNodeLedger_new
    /\ cl_blocks = <<>>
    /\ cl_client = Cl_Client_new
    /\ sc_config = [protocol |-> "NakamotoConsensus",
                    connectivity |-> [type |-> "Full", min_conns_per_node |-> 0],
                    locations |-> <<>>]
    /\ sc_pc = "new"
    /\ sc_idx1 = 0
    /\ sc_scene = [known_links |-> {}, links |-> <<>>, conns_per_nodes |-> <<>>]
    /\ sw_data_ranges = <<>>
    /\ sw_pos = 0
    /\ sw_steps = <<>>
    /\ sw_pc = "new"
    /\ pr_state = PbftNodeLogic_new(PrSelf)
    /\ pr_received = [p \in PrPeers |-> 0]
    /\ pr_last = PrNoMessage
    /\ ou_config = [num_mining_nodes |-> 0, num_non_mining_nodes |-> 0, max_block_size |-> 0]
    /\ ou_generators = <<>>
    /\ ou_slot = 0
    /\ ou_ran = {}
    /\ ou_blocks = {}
    /\ ou_pc = "new"
    /\ rn_parallelism = 0
    /\ rn_generator = [data_ranges |-> <<>>, pos |-> 0]
    /\ rn_at_end = FALSE
    /\ rn_tasks = <<>>
    /\ rn_executed = EmptyMap
    /\ rn_records = <<>>
    /\ rn_pc = "new"
    /\ sim_state = "SettingUp"
    /\ sim_user = "idle"
    /\ sim_worker = "wait"
    /\ sim_handler = "running"
    /\ sim_commands = <<>>
    /\ sim_events = <<>>
    /\ sim_timeout = [status |-> "unset", left |-> 0]
    /\ sim_rate_limit = {}
    /\ sim_time = 0
    /\ sim_next_op_id = 1
    /\ sim_pending_operations = {}
    /\ sim_callers = [caller \in 1..SimNumCallers |->
                        [pc |-> "idle", op_id |-> 0, result |-> {}, returned |-> {}]]

SpecLedger == Init /\ [][NextLedger]_vars
SpecCow == Init /\ [][NextCow]_vars
SpecPbft == Init /\ [][NextPbft]_vars
SpecPbftFair == SpecPbft /\ FairPbft
SpecNk == Init /\ [][NextNk]_vars
SpecNkRequest == Init /\ [][NextNkRequest]_vars
SpecNkGhost == Init /\ [][NextNkGhost]_vars
SpecRun == Init /\ [][NextRun]_vars
SpecNkBlocks == Init /\ [][NextNkBlocks]_vars
SpecClient == Init /\ [][NextClient]_vars
SpecScene == Init /\ [][NextScene]_vars
SpecSweep == Init /\ [][NextSweep]_vars
SpecReplica == Init /\ [][NextReplica]_vars
SpecOuro == Init /\ [][NextOuro]_vars
SpecGossipFaulty == Init /\ [][NextGossipFaulty]_vars
SpecGossip == Init /\ [][NextGossip]_vars /\ FairGossip
SpecSb == Init /\ [][NextSb]_vars /\ FairSb
SpecSbTimeout == Init /\ [][NextSbTimeout]_vars /\ FairSbTimeout
SpecSim == Init /\ [][NextSim]_vars /\ FairSim
SpecRunUntil == Init /\ [][NextRunUntil]_vars /\ FairSim
SpecSimStop == Init /\ [][NextSimStop]_vars /\ FairSimStop
SpecSimIncompatible == Init /\ [][NextSimIncompatible]_vars /\ FairSimIncompatible

====
